---- MODULE Spec2Model ----
(***************************************************************************)
(* Model of the procurement agent's approval registry (HITLService,        *)
(* backend/app/services/hitl_service.py) and its router, of its            *)
(* approval-gated workflow executor (backend/app/routers/workflow.py), of  *)
(* the conversation memory, the search retriever and the RAG pipeline      *)
(* (backend/app/agents/rag_agent.py), of the communication agent's send,   *)
(* and of the supervisor's dependency-graph workflow.                      *)
(***************************************************************************)
EXTENDS Integers, Sequences, FiniteSets, TLC

(***************************************************************************)
(* Bounds of the model.                                                    *)
(***************************************************************************)
\* number of approval requests ever created (uuid4 ids are never reused)
MaxApprovals == 1
\* number of clock advances
MaxTicks == 1
\* number of executor passes over one workflow (the first and the resumed ones)
MaxPasses == 3
\* number of writes to the memory file
MaxMemoryOps == 11
\* number of pipeline runs followed with every answer of the services
MaxRuns == 3

(***************************************************************************)
(* Input domains.                                                          *)
(***************************************************************************)
Users == {"u1", "u2"}
Conversations == {"c1", "c2"}
\* conversation_id: Optional[str] = None
NoConversation == "None"
\* timeout_minutes: Optional[int] = None
NoTimeout == -1
\* HITLService.__init__(default_timeout_minutes = 30)
DefaultTimeoutMinutes == 30
\* timeout_minutes arguments tried by callers
Timeouts == {NoTimeout, 0, 1}
\* the clock advances by the default timeout, so that a request is seen
\* before, exactly at and after its deadline
TickSteps == {DefaultTimeoutMinutes}

\* Dict values are sets of <<key, value>> pairs; Optional[Dict] is a set
\* holding at most one dict (None is the empty set).
EmptyDict == {}
None == {}
Some(d) == {d}
NoteDict == {<<"note", "n1">>}
\* response_data arguments of approve_request
ResponseDatas == {None, Some(NoteDict)}
\* reason: Optional[str] = None
NoReason == "None"
Reasons == {NoReason, "r1"}

ApprovalIds == 1..MaxApprovals

VARIABLES
    pending_approvals,  \* HITLService.pending_approvals: approval_id -> ApprovalRequest
    next_approval,      \* the next fresh approval id (uuid.uuid4())
    now,                \* datetime.now(), in minutes
    ticks,              \* number of clock advances so far
    last,               \* the call on the service made by the latest step, with its result
    workflow,           \* active_workflows[workflow_id]: the WorkflowExecution
    tasks,              \* the background tasks scheduled for the workflow, in order
    stream,             \* the generator of the streaming executor
    tool_calls,         \* the tool invocations made by execute_tool_step, in order
    approved_steps,     \* the steps a human approve action was received for
    responses,          \* the resolve calls answered with success, in order
    scheduled,          \* the execute_approved_action tasks handed to BackgroundTasks, in order
    all_memories,       \* the content of the memory file: conversation_id -> history
    rag,                \* the RAGGraphState of the pipeline run, with the stage reached
    memory_ops,         \* number of writes to the memory file so far
    retriever,          \* the AdaptiveHybridAzureSearchRetriever, with the requests it made
    comm,               \* the latest send request to the CommunicationAgent, with its outcome
    supervisor          \* the Workflow run by SupervisorAgent._execute_workflow, with its locals

hitl_vars == <<pending_approvals, next_approval, now, ticks, last>>
wf_vars == <<workflow, tasks, stream, tool_calls, approved_steps>>
resp_vars == <<responses, scheduled>>
mem_vars == <<all_memories, rag, memory_ops, retriever>>
vars == <<pending_approvals, next_approval, now, ticks, last,
          workflow, tasks, stream, tool_calls, approved_steps,
          responses, scheduled, all_memories, rag, memory_ops, retriever, comm, supervisor>>

(***************************************************************************)
(* HITLService                                                             *)
(***************************************************************************)

\* timeout = timeout_minutes or self.default_timeout_minutes
\* (Python's "or" takes the default for None and for 0)
effective_timeout(timeout_minutes) ==
    IF timeout_minutes = NoTimeout \/ timeout_minutes = 0
    THEN DefaultTimeoutMinutes
    ELSE timeout_minutes

\* the action_type and action_data of a request whose action the model does
\* not follow
NoAction == ""

\* ApprovalRequest(...) as built by create_approval_request at time t; the
\* caller that passes an action the model follows sets action_type and
\* action_data on the record
ApprovalRequest(approval_id, user_id, conversation_id, timeout_minutes, t) ==
    [approval_id     |-> approval_id,
     user_id         |-> user_id,
     conversation_id |-> conversation_id,
     created_at      |-> t,
     expires_at      |-> t + effective_timeout(timeout_minutes),
     action_type     |-> NoAction,
     action_data     |-> EmptyDict,
     status          |-> "pending",
     response_data   |-> None]

\* _is_expired: datetime.now() > request.expires_at
is_expired_inclusive(request, t) == t >= request.expires_at
is_expired(request, t) == t > request.expires_at

\* The result of a call: the value returned and the table afterwards.
Result(ret, table) == [ret |-> ret, table |-> table]

\* get_approval_request: Some(request) or None, flipping an expired one
get_approval_request_pending_only(table, approval_id, t) ==
    IF approval_id \notin DOMAIN table
    THEN Result(None, table)
    ELSE IF is_expired(table[approval_id], t) /\ table[approval_id].status = "pending"
         THEN LET flipped == [table[approval_id] EXCEPT !.status = "expired"]
              IN  Result(Some(flipped), [table EXCEPT ![approval_id] = flipped])
         ELSE Result(Some(table[approval_id]), table)
get_approval_request(table, approval_id, t) ==
    IF approval_id \notin DOMAIN table
    THEN Result(None, table)
    ELSE IF is_expired(table[approval_id], t)
         THEN LET flipped == [table[approval_id] EXCEPT !.status = "expired"]
              IN  Result(Some(flipped), [table EXCEPT ![approval_id] = flipped])
         ELSE Result(Some(table[approval_id]), table)

\* response_data or {}
or_empty(response_data) ==
    IF response_data = None \/ response_data = Some(EmptyDict)
    THEN Some(EmptyDict)
    ELSE response_data

\* approve_request
approve_request_no_status_guard(table, approval_id, user_id, response_data, t) ==
    IF approval_id \notin DOMAIN table THEN Result(FALSE, table)
    ELSE IF table[approval_id].user_id # user_id THEN Result(FALSE, table)
    ELSE IF is_expired(table[approval_id], t)
         THEN Result(FALSE, [table EXCEPT ![approval_id].status = "expired"])
    ELSE Result(TRUE, [table EXCEPT ![approval_id].status = "approved",
                                    ![approval_id].response_data = or_empty(response_data)])
approve_request_no_owner_guard(table, approval_id, user_id, response_data, t) ==
    IF approval_id \notin DOMAIN table THEN Result(FALSE, table)
    ELSE IF is_expired(table[approval_id], t)
         THEN Result(FALSE, [table EXCEPT ![approval_id].status = "expired"])
    ELSE IF table[approval_id].status # "pending" THEN Result(FALSE, table)
    ELSE Result(TRUE, [table EXCEPT ![approval_id].status = "approved",
                                    ![approval_id].response_data = or_empty(response_data)])
approve_request(table, approval_id, user_id, response_data, t) ==
    IF approval_id \notin DOMAIN table THEN Result(FALSE, table)
    ELSE IF table[approval_id].user_id # user_id THEN Result(FALSE, table)
    ELSE IF is_expired(table[approval_id], t)
         THEN Result(FALSE, [table EXCEPT ![approval_id].status = "expired"])
    ELSE IF table[approval_id].status # "pending" THEN Result(FALSE, table)
    ELSE Result(TRUE, [table EXCEPT ![approval_id].status = "approved",
                                    ![approval_id].response_data = or_empty(response_data)])

\* {"reason": reason} if reason else {}
reason_dict(reason) ==
    IF reason = NoReason \/ reason = ""
    THEN Some(EmptyDict)
    ELSE Some({<<"reason", reason>>})

\* reject_request (no expiry check in the code)
reject_request_no_status_guard(table, approval_id, user_id, reason, t) ==
    IF approval_id \notin DOMAIN table THEN Result(FALSE, table)
    ELSE IF table[approval_id].user_id # user_id THEN Result(FALSE, table)
    ELSE Result(TRUE, [table EXCEPT ![approval_id].status = "rejected",
                                    ![approval_id].response_data = reason_dict(reason)])
reject_request(table, approval_id, user_id, reason, t) ==
    IF approval_id \notin DOMAIN table THEN Result(FALSE, table)
    ELSE IF table[approval_id].user_id # user_id THEN Result(FALSE, table)
    ELSE IF table[approval_id].status # "pending" THEN Result(FALSE, table)
    ELSE Result(TRUE, [table EXCEPT ![approval_id].status = "rejected",
                                    ![approval_id].response_data = reason_dict(reason)])

\* One iteration of the loop of get_pending_approvals on a request:
\* "skip", "expire" (flip and skip) or "append".
pending_visit_no_conversation(request, user_id, conversation_id, t) ==
    IF request.user_id # user_id THEN "skip"
    ELSE IF is_expired(request, t) THEN "expire"
    ELSE IF request.status = "pending" THEN "append"
    ELSE "skip"
pending_visit(request, user_id, conversation_id, t) ==
    IF request.user_id # user_id THEN "skip"
    ELSE IF conversation_id # NoConversation /\ request.conversation_id # conversation_id
         THEN "skip"
    ELSE IF is_expired(request, t) THEN "expire"
    ELSE IF request.status = "pending" THEN "append"
    ELSE "skip"

\* The ids of a table in insertion order: ids are handed out in increasing
\* order and a dict iterates in insertion order.
RECURSIVE InsertionOrder(_)
InsertionOrder(ids) ==
    IF ids = {} THEN <<>>
    ELSE LET least == CHOOSE i \in ids : \A j \in ids : i <= j
         IN  <<least>> \o InsertionOrder(ids \ {least})

\* get_pending_approvals: the list returned (as approval ids, in iteration
\* order) and the table with the expired requests it met flipped
get_pending_approvals(table, user_id, conversation_id, t) ==
    LET visit(i) == pending_visit(table[i], user_id, conversation_id, t)
    IN  Result(SelectSeq(InsertionOrder(DOMAIN table), LAMBDA i : visit(i) = "append"),
               [i \in DOMAIN table |->
                   IF visit(i) = "expire"
                   THEN [table[i] EXCEPT !.status = "expired"]
                   ELSE table[i]])

\* cleanup_expired_requests: the number of requests purged and the table left
cleanup_expired_requests(table, t) ==
    LET expired_ids == {i \in DOMAIN table : is_expired(table[i], t)}
    IN  Result(Cardinality(expired_ids),
               [i \in DOMAIN table \ expired_ids |-> table[i]])

(***************************************************************************)
(* Calls on the service.  `last' is the call made by the latest step: its  *)
(* arguments and whether it returned a true (non-empty) value.             *)
(***************************************************************************)
NoCall ==
    [op |-> "none", id |-> 0, user |-> "", conv |-> "", timeout |-> NoTimeout,
     ret |-> FALSE]

HitlInit ==
    /\ pending_approvals = <<>>
    /\ next_approval = 1
    /\ now = 0
    /\ ticks = 0
    /\ last = NoCall

CreateApprovalRequest(user_id, conversation_id, timeout_minutes) ==
    /\ next_approval <= MaxApprovals
    /\ pending_approvals' =
          [i \in DOMAIN pending_approvals \cup {next_approval} |->
              IF i = next_approval
              THEN ApprovalRequest(next_approval, user_id, conversation_id,
                                   timeout_minutes, now)
              ELSE pending_approvals[i]]
    /\ next_approval' = next_approval + 1
    /\ last' = [NoCall EXCEPT !.op = "create", !.id = next_approval,
                              !.user = user_id, !.conv = conversation_id,
                              !.timeout = timeout_minutes, !.ret = TRUE]
    /\ UNCHANGED <<now, ticks, wf_vars, resp_vars, mem_vars, comm, supervisor>>

GetApprovalRequest(approval_id) ==
    LET r == get_approval_request(pending_approvals, approval_id, now)
    IN  /\ pending_approvals' = r.table
        /\ last' = [NoCall EXCEPT !.op = "get", !.id = approval_id,
                                  !.ret = (r.ret # None)]
        /\ UNCHANGED <<next_approval, now, ticks, wf_vars, resp_vars, mem_vars, comm, supervisor>>

ApproveRequest(approval_id, user_id, response_data) ==
    LET r == approve_request(pending_approvals, approval_id, user_id, response_data, now)
    IN  /\ pending_approvals' = r.table
        /\ last' = [NoCall EXCEPT !.op = "approve", !.id = approval_id,
                                  !.user = user_id, !.ret = r.ret]
        /\ UNCHANGED <<next_approval, now, ticks, wf_vars, resp_vars, mem_vars, comm, supervisor>>

RejectRequest(approval_id, user_id, reason) ==
    LET r == reject_request(pending_approvals, approval_id, user_id, reason, now)
    IN  /\ pending_approvals' = r.table
        /\ last' = [NoCall EXCEPT !.op = "reject", !.id = approval_id,
                                  !.user = user_id, !.ret = r.ret]
        /\ UNCHANGED <<next_approval, now, ticks, wf_vars, resp_vars, mem_vars, comm, supervisor>>

GetPendingApprovals(user_id, conversation_id) ==
    LET r == get_pending_approvals(pending_approvals, user_id, conversation_id, now)
    IN  /\ pending_approvals' = r.table
        /\ last' = [NoCall EXCEPT !.op = "list", !.user = user_id,
                                  !.conv = conversation_id, !.ret = (r.ret # <<>>)]
        /\ UNCHANGED <<next_approval, now, ticks, wf_vars, resp_vars, mem_vars, comm, supervisor>>

CleanupExpiredRequests ==
    LET r == cleanup_expired_requests(pending_approvals, now)
    IN  /\ pending_approvals' = r.table
        /\ last' = [NoCall EXCEPT !.op = "cleanup", !.ret = (r.ret > 0)]
        /\ UNCHANGED <<next_approval, now, ticks, wf_vars, resp_vars, mem_vars, comm, supervisor>>

\* datetime.now() moves forward between two calls
Tick(d) ==
    /\ ticks < MaxTicks
    /\ now' = now + d
    /\ ticks' = ticks + 1
    /\ last' = NoCall
    /\ UNCHANGED <<pending_approvals, next_approval, wf_vars, resp_vars, mem_vars, comm, supervisor>>

\* Users and conversations are interchangeable (the code never looks at
\* their values, only compares them): the first request ever created is
\* taken to be that of u1 in c1.
FirstCaller(user_id, conversation_id) ==
    next_approval = 1 => (user_id = "u1" /\ conversation_id = "c1")

HitlNext ==
    \/ \E u \in Users, c \in Conversations, m \in Timeouts :
          FirstCaller(u, c) /\ CreateApprovalRequest(u, c, m)
    \/ \E i \in ApprovalIds : GetApprovalRequest(i)
    \/ \E i \in ApprovalIds, u \in Users, d \in ResponseDatas : ApproveRequest(i, u, d)
    \/ \E i \in ApprovalIds, u \in Users, r \in Reasons : RejectRequest(i, u, r)
    \/ \E u \in Users, c \in Conversations \cup {NoConversation} : GetPendingApprovals(u, c)
    \/ CleanupExpiredRequests
    \/ \E d \in TickSteps : Tick(d)


(***************************************************************************)
(* HITL router (backend/app/routers/hitl.py).  The handlers are coroutines *)
(* without an await and the service's methods are plain functions: on the  *)
(* event loop a handler runs from its first line to its return before the  *)
(* handler of another request starts.                                      *)
(***************************************************************************)
\* ApprovalResponse.action, compared after lower()
Actions == {"approve", "reject", "other"}
\* the reason the Teams handler passes to reject_request
TeamsReason == "Rejected via Teams"

\* the value held by a non-empty Optional
TheOne(opt) == CHOOSE x \in opt : TRUE

\* The outcome of a handler: the HTTP status, whether the answer reports a
\* success, the table afterwards and whether execute_approved_action was
\* handed to BackgroundTasks.
Outcome(code, success, table, schedules) ==
    [code |-> code, success |-> success, table |-> table, schedules |-> schedules]

\* respond_to_approval
respond_to_approval(table, approval_id, user_id, action, response_data, reason, t) ==
    LET request == get_approval_request(table, approval_id, t)
    IN  IF request.ret = None THEN Outcome(404, FALSE, request.table, FALSE)
        ELSE IF TheOne(request.ret).user_id # user_id
        THEN Outcome(403, FALSE, request.table, FALSE)
        ELSE IF action = "approve"
             THEN LET success == approve_request(request.table, approval_id, user_id,
                                                 response_data, t)
                  IN  IF success.ret
                      THEN Outcome(200, TRUE, success.table, TRUE)
                      ELSE Outcome(400, FALSE, success.table, FALSE)
        ELSE IF action = "reject"
             THEN LET success == reject_request(request.table, approval_id, user_id, reason, t)
                  IN  IF success.ret
                      THEN Outcome(200, TRUE, success.table, FALSE)
                      ELSE Outcome(400, FALSE, success.table, FALSE)
        ELSE Outcome(400, FALSE, request.table, FALSE)

\* handle_teams_approval_response: the caller is taken to be the owner; a
\* refused approve or reject is answered with status 200 and a failure text
handle_teams_approval_response(table, approval_id, action, t) ==
    LET request == get_approval_request(table, approval_id, t)
    IN  IF request.ret = None THEN Outcome(404, FALSE, request.table, FALSE)
        ELSE LET user_id == TheOne(request.ret).user_id
             IN  IF action = "approve"
                 THEN LET success == approve_request(request.table, approval_id, user_id,
                                                     None, t)
                      IN  Outcome(200, success.ret, success.table, success.ret)
                 ELSE IF action = "reject"
                 THEN LET success == reject_request(request.table, approval_id, user_id,
                                                    TeamsReason, t)
                      IN  Outcome(200, success.ret, success.table, FALSE)
                 ELSE Outcome(400, FALSE, request.table, FALSE)

RespInit ==
    /\ responses = <<>>
    /\ scheduled = <<>>

\* the bookkeeping shared by the two handlers
Responded(out, approval_id, user_id, action) ==
    /\ pending_approvals' = out.table
    /\ responses' = IF out.success
                    THEN Append(responses, [id |-> approval_id, action |-> action])
                    ELSE responses
    /\ scheduled' = IF out.schedules THEN Append(scheduled, approval_id) ELSE scheduled
    /\ last' = [NoCall EXCEPT !.op = "respond", !.id = approval_id, !.user = user_id,
                              !.ret = out.success]
    /\ UNCHANGED <<next_approval, now, ticks, wf_vars, mem_vars, comm, supervisor>>

\* POST /hitl/respond
RespondToApproval(approval_id, user_id, action, response_data, reason) ==
    Responded(respond_to_approval(pending_approvals, approval_id, user_id, action,
                                  response_data, reason, now),
              approval_id, user_id, action)

\* POST /hitl/teams/approval-response
HandleTeamsApprovalResponse(approval_id, action) ==
    Responded(handle_teams_approval_response(pending_approvals, approval_id, action, now),
              approval_id,
              IF approval_id \in DOMAIN pending_approvals
              THEN pending_approvals[approval_id].user_id
              ELSE NoCall.user,
              action)

RespondNext ==
    \/ \E u \in Users, c \in Conversations, m \in Timeouts :
          FirstCaller(u, c) /\ CreateApprovalRequest(u, c, m)
    \/ \E i \in ApprovalIds, u \in Users, a \in Actions, d \in ResponseDatas, r \in Reasons :
          RespondToApproval(i, u, a, d, r)
    \/ \E i \in ApprovalIds, a \in Actions : HandleTeamsApprovalResponse(i, a)
    \/ \E d \in TickSteps : Tick(d)

(***************************************************************************)
(* AdaptiveHybridAzureSearchRetriever                                      *)
(* (backend/app/services/azure_search_service.py).  A request to the       *)
(* search service is answered with a status code and a body; the answers   *)
(* are inputs of invoke.                                                   *)
(***************************************************************************)
\* the documents of the index; a Document is named by its chunk
DocIds == {"d1", "d2"}
\* results.get('value', []): the lists of documents a search request can return
DocLists ==
    {<<>>} \cup {<<d>> : d \in DocIds}
           \cup {<<d, e>> : <<d, e>> \in {x \in DocIds \X DocIds : x[1] # x[2]}}
\* response.status_code: success and one other status
StatusCodes == {200, 503}
\* index_config['semantic']['configurations']: none, one with a name, one without
NamedConfiguration == <<"name", "cfg1">>
Configurations == {<<>>, <<{NamedConfiguration}>>, <<{}>>}
\* the answers to the request for the index configuration
ProbeResponses == [status_code : StatusCodes, configurations : Configurations]
\* the answers to a search request
SearchResponses == [status_code : StatusCodes, value : DocLists]

\* configurations[0].get('name', 'default')
config_name(configuration) ==
    IF \E pair \in configuration : pair[1] = "name"
    THEN (CHOOSE pair \in configuration : pair[1] = "name")[2]
    ELSE "default"

\* __init__: semantic_available is None and semantic_config_name is not set yet;
\* probes counts the requests for the index configuration made so far and
\* body holds the semantic keys of the latest hybrid search request
NewRetriever ==
    [semantic_available |-> None, semantic_config_name |-> None,
     probes |-> 0, body |-> {}]

\* _check_semantic_availability with the cache left unset by a non-success answer
check_semantic_availability_no_cache_on_failure(r, response) ==
    IF r.semantic_available # None THEN r
    ELSE IF response.status_code = 200
    THEN IF response.configurations # <<>>
         THEN [r EXCEPT !.semantic_available = Some(TRUE),
                        !.semantic_config_name =
                            Some(config_name(response.configurations[1])),
                        !.probes = @ + 1]
         ELSE [r EXCEPT !.semantic_available = Some(FALSE), !.probes = @ + 1]
    ELSE [r EXCEPT !.probes = @ + 1]

\* _check_semantic_availability: the retriever afterwards; the value returned
\* is its semantic_available
check_semantic_availability(r, response) ==
    IF r.semantic_available # None THEN r
    ELSE IF response.status_code = 200
    THEN IF response.configurations # <<>>
         THEN [r EXCEPT !.semantic_available = Some(TRUE),
                        !.semantic_config_name =
                            Some(config_name(response.configurations[1])),
                        !.probes = @ + 1]
         ELSE [r EXCEPT !.semantic_available = Some(FALSE), !.probes = @ + 1]
    ELSE [r EXCEPT !.semantic_available = Some(FALSE), !.probes = @ + 1]

\* _vector_only_search with a failure of the request passed on to the caller
vector_only_search_raises(response) ==
    IF response.status_code = 200
    THEN [raised |-> FALSE, documents |-> response.value]
    ELSE [raised |-> TRUE, documents |-> <<>>]

\* _vector_only_search
vector_only_search(response) ==
    IF response.status_code = 200
    THEN [raised |-> FALSE, documents |-> response.value]
    ELSE [raised |-> FALSE, documents |-> <<>>]

\* invoke: the retriever afterwards, the documents returned, whether the call
\* raised, and whether the vector-only request was made
invoke(r, probe, hybrid, vector) ==
    LET checked == check_semantic_availability(r, probe)
        has_semantic == checked.semantic_available = Some(TRUE)
        body == IF has_semantic
                THEN {<<"queryType", "semantic">>,
                      <<"semanticConfiguration", TheOne(checked.semantic_config_name)>>}
                ELSE {}
        after == [checked EXCEPT !.body = body]
    IN  IF hybrid.status_code = 200
        THEN [retriever |-> after, raised |-> FALSE, documents |-> hybrid.value,
              fell_back |-> FALSE]
        ELSE LET fallback == vector_only_search(vector)
             IN  [retriever |-> after, raised |-> fallback.raised,
                  documents |-> fallback.documents, fell_back |-> TRUE]

(***************************************************************************)
(* ConversationMemoryService (backend/app/services/memory_service.py) and  *)
(* the stages of the RAG pipeline that read and write it                   *)
(* (backend/app/agents/rag_agent.py).  The memory file is read and written *)
(* by plain functions, and RAGAgent.process drives the whole graph without *)
(* an await: nothing else touches the file while a run is under way.       *)
(***************************************************************************)
\* history[-10:] in save_conversation_memory, max_history in add_interaction
MaxHistory == 10
\* memory["history"][-5:] in _update_memory
PipelineHistory == 5
\* conversation_id: str = "default"
DefaultConversation == "default"
MemoryConversations == {DefaultConversation, "c1"}
Questions == {"q1"}
Answers == {"a1"}

\* {"question": ..., "answer": ...}
Entry(question, answer) == [question |-> question, answer |-> answer]
\* {"history": [...]}
Memory(history) == [history |-> history]
\* d.get(key, default)
Get(d, key, default) == IF key \in DOMAIN d THEN d[key] ELSE default

\* seq[-n:]
LastN_all(seq, n) == seq
LastN(seq, n) ==
    IF Len(seq) <= n THEN seq ELSE SubSeq(seq, Len(seq) - n + 1, Len(seq))

\* load_conversation_memory: all_memories.get(conversation_id, {"history": []})
load_conversation_memory(file, conversation_id) ==
    Get(file, conversation_id, Memory(<<>>))

\* save_conversation_memory: the file after `memory' has been saved
save_conversation_memory(file, memory, conversation_id) ==
    LET stored ==
            IF conversation_id \notin DOMAIN file THEN <<>>
            ELSE IF "history" \in DOMAIN file[conversation_id]
                 THEN file[conversation_id].history
            ELSE IF {"question", "answer"} \subseteq DOMAIN file[conversation_id]
                 THEN <<Entry(file[conversation_id].question, file[conversation_id].answer)>>
            ELSE <<>>
        history_entry == Entry(Get(memory, "question", ""), Get(memory, "answer", ""))
        history == LastN(Append(stored, history_entry), MaxHistory)
    IN  [c \in DOMAIN file \cup {conversation_id} |->
            IF c = conversation_id THEN Memory(history) ELSE file[c]]

\* add_interaction: the memory it builds and hands to save_conversation_memory
\* (the timestamp and metadata of the interaction are left out)
interaction_memory(file, question, answer, conversation_id) ==
    LET memory == load_conversation_memory(file, conversation_id)
    IN  Memory(LastN(Append(Get(memory, "history", <<>>), Entry(question, answer)),
                     MaxHistory))
add_interaction(file, question, answer, conversation_id) ==
    save_conversation_memory(file,
                             interaction_memory(file, question, answer, conversation_id),
                             conversation_id)

\* clear_conversation
clear_conversation(file, conversation_id) ==
    [c \in DOMAIN file \ {conversation_id} |-> file[c]]

\* _update_memory: the working copy after the append and the cut
updated_memory(memory, question, generation) ==
    Memory(LastN(Append(Get(memory, "history", <<>>), Entry(question, generation)),
                 PipelineHistory))

\* the strings the rewriter chain can return: empty, shorter than 5
\* characters, and a usable query
Rewrites == {"", "po", "purchase order policy"}

\* a string as the sequence of its characters, for the tests made on the
\* grader's answer
Relevant == <<"R", "E", "L", "E", "V", "A", "N", "T">>
NotRelevant == <<"N", "O", "T", "_">> \o Relevant
LowerRelevant == <<"r", "e", "l", "e", "v", "a", "n", "t">>
Unsure == <<"N", "O">>
\* str.upper(), on the characters used
UpperChar(c) ==
    CASE c = "r" -> "R" [] c = "e" -> "E" [] c = "l" -> "L" [] c = "v" -> "V"
      [] c = "a" -> "A" [] c = "n" -> "N" [] c = "t" -> "T" [] OTHER -> c
Upper(str) == [i \in 1..Len(str) |-> UpperChar(str[i])]
\* sub in str
Contains(str, sub) ==
    \E i \in 1..(Len(str) - Len(sub) + 1) : SubSeq(str, i, i + Len(sub) - 1) = sub

\* grader_chain.invoke on one document: an answer, or an exception
GraderOutcomes ==
    {[raised |-> FALSE, grade |-> g] : g \in {Relevant, NotRelevant, LowerRelevant, Unsure}}
        \cup {[raised |-> TRUE, grade |-> <<>>]}
\* scorer_chain.invoke on one document: a dict with or without "score", or an
\* exception
ScorerOutcomes ==
    {[raised |-> FALSE, result |-> r] : r \in {{}, {<<"score", 1>>}, {<<"score", 5>>}}}
        \cup {[raised |-> TRUE, result |-> {}]}

\* the test of _grade_documents as an equality with the positive class
is_kept_exact(outcome) ==
    /\ ~outcome.raised
    /\ Upper(outcome.grade) = Relevant
\* the test of _grade_documents on one document: no exception and
\* "RELEVANT" in grade.upper()
is_kept(outcome) ==
    /\ ~outcome.raised
    /\ Contains(Upper(outcome.grade), Relevant)

\* _grade_documents with one exception ending the loop
grade_documents_abort(documents, answers) ==
    IF \E i \in 1..Len(documents) : answers[documents[i]].raised
    THEN <<>>
    ELSE SelectSeq(documents, LAMBDA d : is_kept(answers[d]))
\* _grade_documents: relevant_docs
grade_documents(documents, answers) ==
    SelectSeq(documents, LAMBDA d : is_kept(answers[d]))

\* result.get("score", 0), and 0 for a scoring call that raised
score_of(outcome) ==
    IF outcome.raised THEN 0
    ELSE IF \E pair \in outcome.result : pair[1] = "score"
         THEN (CHOOSE pair \in outcome.result : pair[1] = "score")[2]
         ELSE 0

\* one step of a stable sort by decreasing score: the pair goes after every
\* pair whose score is not smaller
RECURSIVE insert_desc(_, _)
insert_desc(sorted, pair) ==
    IF sorted = <<>> THEN <<pair>>
    ELSE IF Head(sorted)[2] >= pair[2]
         THEN <<Head(sorted)>> \o insert_desc(Tail(sorted), pair)
         ELSE <<pair>> \o sorted
\* the same step with the pair placed before the pairs of equal score
RECURSIVE insert_desc_before_equal(_, _)
insert_desc_before_equal(sorted, pair) ==
    IF sorted = <<>> THEN <<pair>>
    ELSE IF Head(sorted)[2] > pair[2]
         THEN <<Head(sorted)>> \o insert_desc_before_equal(Tail(sorted), pair)
         ELSE <<pair>> \o sorted

\* a sort by score that reverses the documents of equal score
RECURSIVE sort_desc_unstable(_)
sort_desc_unstable(scored_docs) ==
    IF scored_docs = <<>> THEN <<>>
    ELSE insert_desc_before_equal(
             sort_desc_unstable(SubSeq(scored_docs, 1, Len(scored_docs) - 1)),
             scored_docs[Len(scored_docs)])
\* scored_docs.sort(key=lambda x: x[1], reverse=True): list.sort is stable,
\* with reverse=True too
RECURSIVE sort_desc(_)
sort_desc(scored_docs) ==
    IF scored_docs = <<>> THEN <<>>
    ELSE insert_desc(sort_desc(SubSeq(scored_docs, 1, Len(scored_docs) - 1)),
                     scored_docs[Len(scored_docs)])

\* _rerank_documents: scored_docs after the sort
rerank_scored(documents, scores) ==
    sort_desc([i \in 1..Len(documents) |-> <<documents[i], score_of(scores[documents[i]])>>])
\* _rerank_documents: final_docs
rerank_documents(documents, scores) ==
    IF documents = <<>> THEN <<>>
    ELSE LET scored_docs == rerank_scored(documents, scores)
         IN  [i \in 1..Len(scored_docs) |-> scored_docs[i][1]]

\* _decide_to_generate with the branches exchanged
decide_to_generate_swapped(documents) ==
    IF documents = <<>> THEN "generate" ELSE "fallback"
\* _decide_to_generate
decide_to_generate(documents) ==
    IF documents = <<>> THEN "fallback" ELSE "generate"

\* the edges of the graph with the generate node led back to the grade node
next_node_regrade(stage, decision) ==
    CASE stage = "rewrite_query" -> "retrieve"
      [] stage = "retrieve" -> "grade_documents"
      [] stage = "grade_documents" -> "rerank_documents"
      [] stage = "rerank_documents" ->
            IF decision = "generate" THEN "generate" ELSE "handle_no_docs"
      [] stage = "generate" -> "grade_documents"
      [] stage = "handle_no_docs" -> "update_memory"
      [] OTHER -> "END"
\* the edges of the graph with the update_memory node entered after a failure
next_node_after_error(stage, decision) ==
    CASE stage = "rewrite_query" -> "retrieve"
      [] stage = "retrieve" -> "grade_documents"
      [] stage = "grade_documents" -> "rerank_documents"
      [] stage = "rerank_documents" ->
            IF decision = "generate" THEN "generate" ELSE "handle_no_docs"
      [] stage = "generate" -> "update_memory"
      [] stage = "handle_no_docs" -> "update_memory"
      [] stage = "error" -> "update_memory"
      [] OTHER -> "END"
\* _build_graph: the node that follows `stage'; the conditional edge after
\* rerank_documents maps "generate" to generate and "fallback" to handle_no_docs
next_node(stage, decision) ==
    CASE stage = "rewrite_query" -> "retrieve"
      [] stage = "retrieve" -> "grade_documents"
      [] stage = "grade_documents" -> "rerank_documents"
      [] stage = "rerank_documents" ->
            IF decision = "generate" THEN "generate" ELSE "handle_no_docs"
      [] stage = "generate" -> "update_memory"
      [] stage = "handle_no_docs" -> "update_memory"
      [] OTHER -> "END"

\* the value a node keeps in no field of the state
NoLocals == <<>>

\* The state of the graph before a run.  stage is the node that ran last,
\* decision the value _decide_to_generate returned, retrieval the request that
\* gave the documents ("hybrid", "vector" or "none"), locals the inputs and
\* local values of the node that ran last.
NoRun ==
    [stage |-> "idle", conversation_id |-> DefaultConversation,
     question |-> "", original_question |-> "", generation |-> "",
     documents |-> <<>>, original_documents |-> <<>>,
     conversation_memory |-> Memory(<<>>),
     decision |-> "", retrieval |-> "", locals |-> NoLocals]

MemInit ==
    /\ all_memories = <<>>
    /\ rag = NoRun
    /\ memory_ops = 0
    /\ retriever = NewRetriever

\* no run is under way: the graph has reached END, or process has returned
\* from its except branch
PipelineIdle == rag.stage \in {"idle", "update_memory", "error"}

\* process, after the run: the AgentResponse
process_response(state) ==
    IF state.stage = "error"
    THEN [success |-> FALSE, answer |-> "", sources |-> <<>>]
    ELSE [success |-> TRUE, answer |-> state.generation, sources |-> state.documents]

SaveConversationMemory(question, answer, conversation_id) ==
    /\ PipelineIdle
    /\ memory_ops < MaxMemoryOps
    /\ all_memories' = save_conversation_memory(all_memories, Entry(question, answer),
                                                conversation_id)
    /\ memory_ops' = memory_ops + 1
    /\ UNCHANGED <<rag, retriever, hitl_vars, wf_vars, resp_vars, comm, supervisor>>

AddInteraction(question, answer, conversation_id) ==
    /\ PipelineIdle
    /\ memory_ops < MaxMemoryOps
    /\ all_memories' = add_interaction(all_memories, question, answer, conversation_id)
    /\ memory_ops' = memory_ops + 1
    /\ UNCHANGED <<rag, retriever, hitl_vars, wf_vars, resp_vars, comm, supervisor>>

ClearConversation(conversation_id) ==
    /\ PipelineIdle
    /\ memory_ops < MaxMemoryOps
    /\ conversation_id \in DOMAIN all_memories
    /\ all_memories' = clear_conversation(all_memories, conversation_id)
    /\ memory_ops' = memory_ops + 1
    /\ UNCHANGED <<rag, retriever, hitl_vars, wf_vars, resp_vars, comm, supervisor>>

\* what every node of the graph leaves alone
NodeUnchanged == UNCHANGED <<all_memories, memory_ops, hitl_vars, wf_vars, resp_vars, comm, supervisor>>

\* _rewrite_query: the run starts, loads the memory of the default
\* conversation and takes the rewriter's answer as the question;
\* conversation_id is the one of the request, handed to process in
\* state.data["conversation_id"], which no node reads
RewriteQuery(conversation_id, question, rewritten_question) ==
    /\ PipelineIdle
    /\ memory_ops < MaxMemoryOps
    /\ rag' = [NoRun EXCEPT !.stage = "rewrite_query",
                            !.conversation_id = conversation_id,
                            !.question = rewritten_question,
                            !.original_question = question,
                            !.conversation_memory =
                                load_conversation_memory(all_memories, DefaultConversation)]
    /\ UNCHANGED retriever
    /\ NodeUnchanged

\* _retrieve_docs; an exception of invoke ends the run in process
RetrieveDocs(probe, hybrid, vector) ==
    /\ next_node(rag.stage, rag.decision) = "retrieve"
    /\ LET found == invoke(retriever, probe, hybrid, vector)
       IN  /\ retriever' = found.retriever
           /\ rag' = [rag EXCEPT !.stage = IF found.raised THEN "error" ELSE "retrieve",
                                  !.documents = found.documents,
                                  !.original_documents = found.documents,
                                  !.retrieval =
                                      IF ~found.fell_back THEN "hybrid"
                                      ELSE IF vector.status_code = 200 THEN "vector"
                                      ELSE "none"]
    /\ NodeUnchanged

\* _grade_documents
GradeDocuments(answers) ==
    /\ next_node(rag.stage, rag.decision) = "grade_documents"
    /\ rag' = [rag EXCEPT !.stage = "grade_documents",
                          !.documents = grade_documents(rag.documents, answers),
                          !.locals = [answers |-> answers]]
    /\ UNCHANGED retriever
    /\ NodeUnchanged

\* _rerank_documents, then the conditional edge _decide_to_generate
RerankDocuments(scores) ==
    /\ next_node(rag.stage, rag.decision) = "rerank_documents"
    /\ LET final_docs == rerank_documents(rag.documents, scores)
       IN  rag' = [rag EXCEPT !.stage = "rerank_documents",
                              !.documents = final_docs,
                              !.decision = decide_to_generate(final_docs),
                              !.locals = [scores |-> scores]]
    /\ UNCHANGED retriever
    /\ NodeUnchanged

\* _generate
Generate(generation) ==
    /\ next_node(rag.stage, rag.decision) = "generate"
    /\ rag' = [rag EXCEPT !.stage = "generate", !.generation = generation,
                          !.locals = NoLocals]
    /\ UNCHANGED retriever
    /\ NodeUnchanged

\* _handle_no_docs
HandleNoDocs(generation) ==
    /\ next_node(rag.stage, rag.decision) = "handle_no_docs"
    /\ rag' = [rag EXCEPT !.stage = "handle_no_docs", !.generation = generation,
                          !.documents = <<>>, !.locals = NoLocals]
    /\ UNCHANGED retriever
    /\ NodeUnchanged

\* _update_memory
UpdateMemory ==
    /\ next_node(rag.stage, rag.decision) = "update_memory"
    /\ LET memory == updated_memory(rag.conversation_memory, rag.original_question,
                                    rag.generation)
       IN  /\ rag' = [rag EXCEPT !.stage = "update_memory", !.conversation_memory = memory]
           /\ all_memories' = save_conversation_memory(all_memories, memory,
                                                       DefaultConversation)
    /\ memory_ops' = memory_ops + 1
    /\ UNCHANGED <<retriever, hitl_vars, wf_vars, resp_vars, comm, supervisor>>

\* the answers of the services in the runs followed for their order alone,
\* and in the runs that interleave with the other users of the memory file:
\* one document found, graded relevant or not
OneDocument == [status_code |-> 200, value |-> <<"d1">>]
NoSemantic == [status_code |-> 200, configurations |-> <<>>]
PlainGrades == {[d \in DocIds |-> [raised |-> FALSE, grade |-> g]] : g \in {Relevant, Unsure}}
PlainScores == {[d \in DocIds |-> [raised |-> FALSE, result |-> {<<"score", 5>>}]]}

\* the runs of the pipeline with these answers
RunNext ==
    \/ \E q \in Questions : RewriteQuery(DefaultConversation, q, q)
    \/ RetrieveDocs(NoSemantic, OneDocument, OneDocument)
    \/ \E g \in PlainGrades : GradeDocuments(g)
    \/ \E r \in PlainScores : RerankDocuments(r)
    \/ \E a \in Answers : Generate(a)
    \/ \E a \in Answers : HandleNoDocs(a)
    \/ UpdateMemory

MemoryNext ==
    \/ \E q \in Questions, a \in Answers, c \in MemoryConversations :
          SaveConversationMemory(q, a, c)
    \/ \E q \in Questions, a \in Answers, c \in MemoryConversations :
          AddInteraction(q, a, c)
    \/ \E c \in MemoryConversations : ClearConversation(c)
    \/ RunNext

\* the runs of the pipeline alone (each ends with one write to the memory
\* file), with every answer of the rewriter, the search service, the grader
\* and the scorer
PipelineNext ==
    \/ \E q \in Questions, w \in Rewrites :
          memory_ops < MaxRuns /\ RewriteQuery(DefaultConversation, q, w)
    \/ \E p \in ProbeResponses, h \in SearchResponses, v \in SearchResponses :
          RetrieveDocs(p, h, v)
    \/ \E g \in [DocIds -> GraderOutcomes] : GradeDocuments(g)
    \/ \E r \in [DocIds -> ScorerOutcomes] : RerankDocuments(r)
    \/ \E a \in Answers : Generate(a)
    \/ \E a \in Answers : HandleNoDocs(a)
    \/ UpdateMemory

\* process, `except Exception': an exception raised inside a node leaves
\* graph.stream, the nodes after it do not run, and the state is the one
\* the last completed node left
process_except(state) == [state EXCEPT !.stage = "error", !.locals = NoLocals]

\* _rewrite_query raises (the rewriter chain fails): no node has completed
RewriteQueryRaises(question) ==
    /\ PipelineIdle
    /\ memory_ops < MaxMemoryOps
    /\ rag' = process_except([NoRun EXCEPT !.question = question])
    /\ UNCHANGED retriever
    /\ NodeUnchanged

\* the nodes after the rewrite whose exceptions nothing inside the node catches
RaisingNodes == {"retrieve", "generate", "handle_no_docs"}

\* _retrieve_docs (the embedding of the query fails), _generate or
\* _handle_no_docs (the chain fails) raises
NodeRaises ==
    /\ next_node(rag.stage, rag.decision) \in RaisingNodes
    /\ rag' = process_except(rag)
    /\ UNCHANGED retriever
    /\ NodeUnchanged

\* the runs of the pipeline asked for by requests of either conversation
ConversationNext ==
    \/ \E c \in MemoryConversations, q \in Questions : RewriteQuery(c, q, q)
    \/ RetrieveDocs(NoSemantic, OneDocument, OneDocument)
    \/ \E g \in PlainGrades : GradeDocuments(g)
    \/ \E r \in PlainScores : RerankDocuments(r)
    \/ \E a \in Answers : Generate(a)
    \/ \E a \in Answers : HandleNoDocs(a)
    \/ UpdateMemory

\* the runs of the pipeline in which any of these stages may fail
FailureNext ==
    \/ RunNext
    \/ \E q \in Questions : RewriteQueryRaises(q)
    \/ NodeRaises

(***************************************************************************)
(* CommunicationAgent._send_communication                                  *)
(* (backend/app/agents/communication_agent.py): the send request is the    *)
(* dict state.data, the answer or exception of                             *)
(* graph_service.send_email_on_behalf is an input.                         *)
(***************************************************************************)
\* data.get(key) of a key the request does not hold
Absent == "None"
\* the values of a text field of the request: not given, empty, given
FieldValues == {Absent, "", "given"}
\* bool(value) of a text field
Given(value) == value # Absent /\ value # ""

\* state.data of a send request
SendDatas ==
    [approved : BOOLEAN, draft : {"", "given"}, recipient : {"", "given"},
     user_access_token : FieldValues, user_email : FieldValues, user_name : FieldValues]
\* send_email_on_behalf: success, failure, or an exception
GraphResults == {"success", "failure", "raise"}

\* the AgentResponse of a send, with the method it names and whether
\* send_email_on_behalf was called
SendResponse(success, method, called) ==
    [success |-> success, method |-> method, called |-> called]

\* all([user_access_token, user_email, user_name])
has_user_context(data) ==
    /\ Given(data.user_access_token)
    /\ Given(data.user_email)
    /\ Given(data.user_name)

\* _simulate_email_sending
simulate_email_sending(draft, recipient) == SendResponse(TRUE, "simulation", FALSE)

\* _send_communication without the test of `approved'
send_communication_no_approval_check(data, result) ==
    IF ~Given(data.draft) \/ ~Given(data.recipient)
    THEN SendResponse(FALSE, "none", FALSE)
    ELSE IF ~has_user_context(data)
    THEN simulate_email_sending(data.draft, data.recipient)
    ELSE IF result = "success"
    THEN SendResponse(TRUE, "microsoft_graph_api", TRUE)
    ELSE SendResponse(FALSE, "none", TRUE)

\* _send_communication
send_communication(data, result) ==
    IF ~data.approved THEN SendResponse(FALSE, "none", FALSE)
    ELSE IF ~Given(data.draft) \/ ~Given(data.recipient)
    THEN SendResponse(FALSE, "none", FALSE)
    ELSE IF ~has_user_context(data)
    THEN simulate_email_sending(data.draft, data.recipient)
    ELSE IF result = "success"
    THEN SendResponse(TRUE, "microsoft_graph_api", TRUE)
    ELSE SendResponse(FALSE, "none", TRUE)

\* no send request yet
NoSend ==
    [sends |-> 0,
     data |-> [approved |-> FALSE, draft |-> "", recipient |-> "",
               user_access_token |-> Absent, user_email |-> Absent, user_name |-> Absent],
     response |-> SendResponse(FALSE, "none", FALSE)]

CommInit == comm = NoSend

\* process with action "send"
SendCommunication(data, result) ==
    /\ comm' = [sends |-> 1, data |-> data, response |-> send_communication(data, result)]
    /\ UNCHANGED <<hitl_vars, wf_vars, resp_vars, mem_vars, supervisor>>

SendNext ==
    \E data \in SendDatas, result \in GraphResults : SendCommunication(data, result)

(***************************************************************************)
(* Workflow router (backend/app/routers/workflow.py): one workflow, run by *)
(* the background executor (POST /workflow/execute) or by the streaming    *)
(* executor (POST /workflow/execute/stream).                               *)
(***************************************************************************)
RagTool == "procurement_rag_agent_tool"
DraftTool == "draft_communication_tool"
SendTool == "send_communication_tool"
Placeholder == "{{previous_step_result}}"
\* result: Optional[str] = None
NoResult == "None"

\* A message is the set of the keywords and indicator phrases it contains
\* (the code only tests `word in message_lower`).
ProcurementKeywords == {"policy", "procurement", "contract", "vendor", "purchase"}
CommunicationKeywords == {"draft", "email", "send", "message", "contact"}
Messages == {{"policy"}, {"email"}, {"vendor", "email"}, {"threshold", "policy"}, {}}

\* What the tool adapters hand back to execute_tool_step: the RAG answer
\* (with or without an offer to help drafting an email), the draft text
\* (possibly empty), the send confirmation, or an "Error: ..." text.
RagOffer == "answer: would you like assistance drafting an email"
RagResults == {"answer", RagOffer, "Error: rag"}
DraftResults == {"draft text", "", "Error: draft"}
SendResults == {"email sent", "email send failed"}
ToolResults(tool_name) ==
    IF tool_name = RagTool THEN RagResults
    ELSE IF tool_name = DraftTool THEN DraftResults
    ELSE SendResults

\* the user and conversation of the ToolWorkflowRequest
WorkflowUser == "u1"
WorkflowConversation == "c1"

\* WorkflowStep(...): tool_args is kept as its draft and recipient entries
WorkflowStep(n, tool_name, draft, recipient, requires_approval) ==
    [step_id           |-> n,
     tool_name         |-> tool_name,
     tool_args         |-> [draft |-> draft, recipient |-> recipient],
     result            |-> NoResult,
     requires_approval |-> requires_approval,
     approval_id       |-> 0,
     status            |-> "pending"]

\* plan_workflow_steps
plan_workflow_steps_independent_ifs(message) ==
    (IF message \cap ProcurementKeywords # {}
     THEN <<WorkflowStep(1, RagTool, "", "", FALSE)>>
     ELSE <<>>)
    \o (IF message \cap CommunicationKeywords # {}
        THEN <<WorkflowStep(1, DraftTool, "", "Procurement Team", FALSE),
               WorkflowStep(2, SendTool, Placeholder, "Procurement Team", TRUE)>>
        ELSE <<>>)
plan_workflow_steps(message) ==
    IF message \cap ProcurementKeywords # {}
    THEN <<WorkflowStep(1, RagTool, "", "", FALSE)>>
    ELSE IF message \cap CommunicationKeywords # {}
    THEN <<WorkflowStep(1, DraftTool, "", "Procurement Team", FALSE),
           WorkflowStep(2, SendTool, Placeholder, "Procurement Team", TRUE)>>
    ELSE <<WorkflowStep(1, RagTool, "", "", FALSE)>>

\* Python truthiness of an Optional[str]
Truthy(text) == text # NoResult /\ text # ""

\* execute_tool_step: the draft argument handed to the tool of step j, the
\* placeholder replaced by the result of the last completed step before it
RECURSIVE PrevCompleted(_, _)
PrevCompleted(steps, j) ==
    IF j <= 1 THEN 0
    ELSE IF steps[j - 1].status = "completed" THEN j - 1
    ELSE PrevCompleted(steps, j - 1)
ResolvedDraft(steps, j) ==
    LET prev == PrevCompleted(steps, j)
    IN  IF steps[j].tool_args.draft = Placeholder /\ prev # 0 /\ Truthy(steps[prev].result)
        THEN steps[prev].result
        ELSE steps[j].tool_args.draft

\* email_offer_patterns of execute_workflow_background
OffersEmailBackground(result) == result = RagOffer
\* should_trigger_dynamic_email_workflow of the streaming executor
BasicQuestionIndicators == {"what are the core", "contact information"}
NonProcurementIndicators == {"weather", "time"}
ComplexProcurementIndicators == {"threshold", "compliance"}
should_trigger_dynamic_email_workflow(result, message) ==
    /\ Truthy(result)
    /\ result = RagOffer
    /\ message \cap BasicQuestionIndicators = {}
    /\ message \cap NonProcurementIndicators = {}
    /\ message \cap ComplexProcurementIndicators # {}

\* the two steps appended after a RAG answer that offers email assistance
DynamicSteps_awaiting(steps) ==
    LET next_step_num == Len(steps) + 1
    IN  <<[WorkflowStep(next_step_num, DraftTool, "", "Richard Pallangyo", FALSE)
              EXCEPT !.status = "awaiting_approval"],
          [WorkflowStep(next_step_num + 1, SendTool, Placeholder, "Richard Pallangyo", TRUE)
              EXCEPT !.status = "awaiting_approval"]>>
\* the two steps with the numbering started at the length of the list
DynamicSteps_reused_id(steps) ==
    LET next_step_num == Len(steps)
    IN  <<WorkflowStep(next_step_num, DraftTool, "", "Richard Pallangyo", FALSE),
          WorkflowStep(next_step_num + 1, SendTool, Placeholder, "Richard Pallangyo", TRUE)>>
DynamicSteps(steps) ==
    LET next_step_num == Len(steps) + 1
    IN  <<WorkflowStep(next_step_num, DraftTool, "", "Richard Pallangyo", FALSE),
          WorkflowStep(next_step_num + 1, SendTool, Placeholder, "Richard Pallangyo", TRUE)>>
\* workflow.steps.append(draft_step); workflow.steps.append(send_step)
AppendedSteps_replace(steps) == DynamicSteps(steps)
AppendedSteps(steps) == steps \o DynamicSteps(steps)

\* the loop without the test of the status: the step at index i
NextPending_no_skip(steps, i) == i
\* the first index >= i of a step with status pending (Len + 1 when none):
\* the loop of execute_workflow_background skips the other steps
RECURSIVE NextPending(_, _)
NextPending(steps, i) ==
    IF i > Len(steps) THEN i
    ELSE IF steps[i].status = "pending" THEN i
    ELSE NextPending(steps, i + 1)

\* does the executor halt at this step for a human decision?
NeedsApproval(step, auto) == step.requires_approval /\ ~auto

\* "Check if workflow is complete" at the end of execute_workflow_background
Completion_any_completed(w) ==
    IF \E k \in DOMAIN w.steps : w.steps[k].status = "completed"
    THEN [w EXCEPT !.status = "completed",
                   !.final_result =
                       SelectSeq([k \in DOMAIN w.steps |-> w.steps[k].result], Truthy)]
    ELSE w
Completion(w) ==
    IF \A k \in DOMAIN w.steps : w.steps[k].status \in {"completed", "failed"}
    THEN IF \E k \in DOMAIN w.steps : w.steps[k].status = "failed"
         THEN [w EXCEPT !.status = "failed"]
         ELSE [w EXCEPT !.status = "completed",
                        !.final_result =
                            SelectSeq([k \in DOMAIN w.steps |-> w.steps[k].result], Truthy)]
    ELSE w

NoWorkflow ==
    [mode |-> "none", message |-> {}, auto_approve |-> FALSE, steps |-> <<>>,
     status |-> "running", final_result |-> <<NoResult>>]

WfInit ==
    /\ workflow = NoWorkflow
    /\ tasks = <<>>
    /\ stream = [pc |-> "idle", step_index |-> 0]
    /\ tool_calls = <<>>
    /\ approved_steps = {}

\* POST /workflow/execute: create the workflow, plan it, schedule the executor
ExecuteToolWorkflow(message, auto) ==
    /\ workflow.mode = "none"
    /\ workflow' = [NoWorkflow EXCEPT !.mode = "background", !.message = message,
                                      !.auto_approve = auto,
                                      !.steps = plan_workflow_steps(message)]
    /\ tasks' = <<[pc |-> "ready", step_index |-> 0, auto_approve |-> auto, from_step |-> 0]>>
    /\ UNCHANGED <<stream, tool_calls, approved_steps, hitl_vars, resp_vars, mem_vars, comm, supervisor>>

\* execute_workflow_background from step_index on, up to its next await:
\* either the tool of a pending step is called, or the pass ends (at a gated
\* step, with an approval request created, or at the end of the list).
BackgroundAdvance(t, w, i) ==
    LET j == NextPending(w.steps, i)
    IN  IF j > Len(w.steps)
        THEN /\ workflow' = Completion(w)
             /\ tasks' = [tasks EXCEPT ![t].pc = "done", ![t].step_index = j]
             /\ UNCHANGED <<tool_calls, pending_approvals, next_approval>>
        ELSE IF NeedsApproval(w.steps[j], tasks[t].auto_approve)
        THEN /\ pending_approvals' =
                   [k \in DOMAIN pending_approvals \cup {next_approval} |->
                       IF k = next_approval
                       THEN [ApprovalRequest(next_approval, WorkflowUser,
                                             WorkflowConversation, NoTimeout, now)
                                EXCEPT !.action_type = <<"execute_tool", w.steps[j].tool_name>>,
                                       !.action_data = w.steps[j].tool_args]
                       ELSE pending_approvals[k]]
             /\ next_approval' = next_approval + 1
             /\ workflow' = Completion(
                   [w EXCEPT !.steps[j].approval_id = next_approval,
                             !.steps[j].status = "awaiting_approval",
                             !.status = "awaiting_approval"])
             /\ tasks' = [tasks EXCEPT ![t].pc = "done", ![t].step_index = j]
             /\ UNCHANGED tool_calls
        ELSE /\ workflow' = w
             /\ tasks' = [tasks EXCEPT ![t].pc = "tool", ![t].step_index = j]
             /\ tool_calls' = Append(tool_calls,
                   [step |-> j, tool_name |-> w.steps[j].tool_name,
                    draft |-> ResolvedDraft(w.steps, j)])
             /\ UNCHANGED <<pending_approvals, next_approval>>

\* a scheduled background task starts running
BackgroundStart(t) ==
    /\ t \in DOMAIN tasks
    /\ tasks[t].pc = "ready"
    /\ BackgroundAdvance(t, workflow, 1)
    /\ UNCHANGED <<stream, approved_steps, now, ticks, last, resp_vars, mem_vars, comm, supervisor>>

\* the awaited tool returns: store the result, append the email steps when
\* the RAG answer offers them, and go on with the loop
BackgroundToolReturn(t, result) ==
    /\ t \in DOMAIN tasks
    /\ tasks[t].pc = "tool"
    /\ LET j == tasks[t].step_index
           done == [workflow EXCEPT !.steps[j].result = result,
                                    !.steps[j].status = "completed"]
           grown == IF done.steps[j].tool_name = RagTool /\ Truthy(result)
                       /\ OffersEmailBackground(result)
                    THEN [done EXCEPT !.steps = AppendedSteps(done.steps),
                                      !.status = "running"]
                    ELSE done
       IN  /\ result \in ToolResults(workflow.steps[j].tool_name)
           /\ BackgroundAdvance(t, grown, j + 1)
    /\ UNCHANGED <<stream, approved_steps, now, ticks, last, resp_vars, mem_vars, comm, supervisor>>

\* the lookup taking a failed step as well
AwaitingStep_or_failed(steps) ==
    IF \E k \in DOMAIN steps : steps[k].status \in {"awaiting_approval", "failed"}
    THEN CHOOSE k \in DOMAIN steps :
            /\ steps[k].status \in {"awaiting_approval", "failed"}
            /\ \A m \in DOMAIN steps :
                  steps[m].status \in {"awaiting_approval", "failed"} => k <= m
    ELSE 0
\* the first step with status awaiting_approval (0 when none)
AwaitingStep(steps) ==
    IF \E k \in DOMAIN steps : steps[k].status = "awaiting_approval"
    THEN CHOOSE k \in DOMAIN steps :
            /\ steps[k].status = "awaiting_approval"
            /\ \A m \in DOMAIN steps : steps[m].status = "awaiting_approval" => k <= m
    ELSE 0

\* POST /workflow/approve/{workflow_id} with action "approve": the step goes
\* back to pending and continue_workflow_execution is scheduled, which runs
\* execute_workflow_background(workflow_id, auto_approve=False)
ApproveWorkflowStep ==
    /\ workflow.mode # "none"
    /\ AwaitingStep(workflow.steps) # 0
    /\ Len(tasks) < MaxPasses
    /\ LET j == AwaitingStep(workflow.steps)
       IN  /\ workflow' = [workflow EXCEPT !.steps[j].status = "pending"]
           /\ tasks' = Append(tasks, [pc |-> "ready", step_index |-> 0,
                                      auto_approve |-> FALSE,
                                      from_step |-> workflow.steps[j].step_id])
           /\ approved_steps' = approved_steps \cup {j}
    /\ UNCHANGED <<stream, tool_calls, hitl_vars, resp_vars, mem_vars, comm, supervisor>>

\* POST /workflow/approve/{workflow_id} with action "reject"
RejectWorkflowStep ==
    /\ workflow.mode # "none"
    /\ AwaitingStep(workflow.steps) # 0
    /\ LET j == AwaitingStep(workflow.steps)
       IN  workflow' = [workflow EXCEPT !.steps[j].status = "failed",
                                        !.status = "failed",
                                        !.final_result = <<"Workflow stopped: rejected by user">>]
    /\ UNCHANGED <<tasks, stream, tool_calls, approved_steps, hitl_vars, resp_vars, mem_vars, comm, supervisor>>

\* POST /workflow/execute/stream: create the workflow and plan it
StreamToolWorkflow(message, auto) ==
    /\ workflow.mode = "none"
    /\ workflow' = [NoWorkflow EXCEPT !.mode = "stream", !.message = message,
                                      !.auto_approve = auto,
                                      !.steps = plan_workflow_steps(message)]
    /\ stream' = [pc |-> "loop", step_index |-> 1]
    /\ UNCHANGED <<tasks, tool_calls, approved_steps, hitl_vars, resp_vars, mem_vars, comm, supervisor>>

\* the loop head of generate_workflow_stream: a gated step gets a fresh
\* approval id and the status pending_approval, and the generator sleeps;
\* past the last step the final result is determined
StreamLoop ==
    /\ stream.pc = "loop"
    /\ LET j == stream.step_index
       IN  IF j > Len(workflow.steps)
           THEN /\ LET completed_steps ==
                        SelectSeq(workflow.steps, LAMBDA s : s.status = "completed")
                    IN  workflow' =
                          IF completed_steps # <<>>
                          THEN [workflow EXCEPT
                                  !.final_result =
                                      <<completed_steps[Len(completed_steps)].result>>,
                                  !.status = "completed"]
                          ELSE [workflow EXCEPT !.status = "failed"]
                /\ stream' = [stream EXCEPT !.pc = "done"]
                /\ UNCHANGED next_approval
           ELSE IF NeedsApproval(workflow.steps[j], workflow.auto_approve)
           THEN /\ workflow' = [workflow EXCEPT !.steps[j].approval_id = next_approval,
                                                !.steps[j].status = "pending_approval"]
                /\ next_approval' = next_approval + 1
                /\ stream' = [stream EXCEPT !.pc = "sleep"]
           ELSE /\ stream' = [stream EXCEPT !.pc = "execute"]
                /\ UNCHANGED <<workflow, next_approval>>
    /\ UNCHANGED <<tasks, tool_calls, approved_steps, pending_approvals, now, ticks, last,
                   resp_vars, mem_vars, comm, supervisor>>

\* "For demo purposes, auto-approve after a short delay": asyncio.sleep(2)
\* is over and the generator goes on to the tool
StreamSleepOver ==
    /\ stream.pc = "sleep"
    /\ stream' = [stream EXCEPT !.pc = "execute"]
    /\ UNCHANGED <<workflow, tasks, tool_calls, approved_steps, hitl_vars, resp_vars, mem_vars, comm, supervisor>>

\* result = await execute_tool_step(step, workflow)
StreamExecute ==
    /\ stream.pc = "execute"
    /\ LET j == stream.step_index
       IN  tool_calls' = Append(tool_calls,
              [step |-> j, tool_name |-> workflow.steps[j].tool_name,
               draft |-> ResolvedDraft(workflow.steps, j)])
    /\ stream' = [stream EXCEPT !.pc = "tool"]
    /\ UNCHANGED <<workflow, tasks, approved_steps, hitl_vars, resp_vars, mem_vars, comm, supervisor>>

\* the awaited tool returns to the generator
StreamToolReturn(result) ==
    /\ stream.pc = "tool"
    /\ LET j == stream.step_index
           done == [workflow EXCEPT !.steps[j].result = result,
                                    !.steps[j].status = "completed"]
       IN  /\ result \in ToolResults(workflow.steps[j].tool_name)
           /\ workflow' =
                 IF done.steps[j].tool_name = RagTool
                    /\ should_trigger_dynamic_email_workflow(result, workflow.message)
                 THEN [done EXCEPT !.steps = AppendedSteps(done.steps)]
                 ELSE done
           /\ stream' = [pc |-> "loop", step_index |-> j + 1]
    /\ UNCHANGED <<tasks, tool_calls, approved_steps, hitl_vars, resp_vars, mem_vars, comm, supervisor>>

\* the client closes the connection while the generator is suspended
StreamClosed ==
    /\ stream.pc \in {"loop", "sleep", "execute", "tool"}
    /\ stream' = [stream EXCEPT !.pc = "closed"]
    /\ UNCHANGED <<workflow, tasks, tool_calls, approved_steps, hitl_vars, resp_vars, mem_vars, comm, supervisor>>

AllResults == RagResults \cup DraftResults \cup SendResults

Next ==
    \/ \E m \in Messages, auto \in BOOLEAN : ExecuteToolWorkflow(m, auto)
    \/ \E t \in 1..MaxPasses : BackgroundStart(t)
    \/ \E t \in 1..MaxPasses, r \in AllResults : BackgroundToolReturn(t, r)
    \/ ApproveWorkflowStep
    \/ RejectWorkflowStep
    \/ \E m \in Messages, auto \in BOOLEAN : StreamToolWorkflow(m, auto)
    \/ StreamLoop
    \/ StreamSleepOver
    \/ StreamExecute
    \/ \E r \in AllResults : StreamToolReturn(r)
    \/ StreamClosed

(***************************************************************************)
(* SupervisorAgent._execute_workflow                                       *)
(* (backend/app/agents/supervisor_agent.py): one workflow of steps with    *)
(* dependencies, the ready steps of each round run together and joined by  *)
(* asyncio.gather.                                                         *)
(***************************************************************************)
\* the ids of the steps of a workflow definition (a step's id is its
\* position in the list), and an id that no step has
StepIds == {1, 2, 3}
UnknownStep == 0
\* depends_on: List[str] = [], as the set of the ids it lists
DependsOn == {d \in SUBSET (StepIds \cup {UnknownStep}) : Cardinality(d) <= 2}
\* state.data["workflow"]["steps"], each step given by its depends_on
WorkflowDefs == UNION {[1..n -> DependsOn] : n \in 0..Cardinality(StepIds)}

\* what awaiting _execute_workflow_step gives: the AgentResponse of the
\* agent (success true or false), or an exception
StepOutcomes == {"success", "failure", "exception"}
\* the results of a round of up to three steps
RoundOutcomes == UNION {[1..n -> StepOutcomes] : n \in 1..Cardinality(StepIds)}

\* WorkflowStep(step_id, agent_id, task_type, input_data, depends_on)
SupervisorStep(step_id, depends_on) ==
    [step_id |-> step_id, depends_on |-> depends_on, status |-> "pending",
     result |-> NoResult]

\* _is_workflow_complete
is_workflow_complete(steps) ==
    \A i \in DOMAIN steps : steps[i].status \in {"completed", "failed"}

\* _get_ready_steps: the positions of the ready steps, in list order;
\* completed_steps is kept as the set of its keys, the value stored under
\* a key being the step object of that id
get_ready_steps(steps, completed_steps) ==
    LET dependencies_satisfied(i) ==
            \A dep_id \in steps[i].depends_on :
                dep_id \in completed_steps /\ steps[dep_id].status = "completed"
        ready(i) == steps[i].status = "pending" /\ dependencies_satisfied(i)
    IN  SelectSeq([i \in DOMAIN steps |-> i], ready)

\* asyncio.gather(*tasks) without return_exceptions: the first exception
\* leaves the await
gather_raises(outcomes) ==
    [raised |-> \E k \in DOMAIN outcomes : outcomes[k] = "exception",
     step_results |-> outcomes]
\* asyncio.gather(*tasks, return_exceptions=True): every task is awaited to
\* its end and an exception is handed back as that task's result
gather(outcomes) == [raised |-> FALSE, step_results |-> outcomes]

\* "Process results": the steps and completed_steps after the round
process_results(s, step_results) ==
    LET pos(i) == CHOOSE k \in DOMAIN s.ready_steps : s.ready_steps[k] = i
        in_round(i) == \E k \in DOMAIN s.ready_steps : s.ready_steps[k] = i
    IN  [s EXCEPT
            !.steps = [i \in DOMAIN s.steps |->
                IF ~in_round(i) THEN s.steps[i]
                ELSE IF step_results[pos(i)] = "exception"
                THEN [s.steps[i] EXCEPT !.status = "failed",
                                        !.result = "error response"]
                ELSE [s.steps[i] EXCEPT !.status = "completed",
                                        !.result = step_results[pos(i)]]],
            !.completed_steps = @ \cup {i \in DOMAIN s.steps : in_round(i)}]

\* the while loop from its head to its next await, or to the return: the
\* coroutines of the ready steps are created (executions counts them)
run_loop(s) ==
    LET ready_steps == get_ready_steps(s.steps, s.completed_steps)
    IN  IF is_workflow_complete(s.steps) \/ ready_steps = <<>>
        THEN [s EXCEPT !.pc = "done", !.status = "completed", !.ready_steps = <<>>,
                       !.rounds = @ + 1]
        ELSE [s EXCEPT !.pc = "gather", !.ready_steps = ready_steps,
                       !.rounds = @ + 1,
                       !.executions = [i \in DOMAIN @ |->
                           IF \E k \in DOMAIN ready_steps : ready_steps[k] = i
                           THEN @[i] + 1 ELSE @[i]]]

\* no workflow yet.  rounds counts the evaluations of the loop condition,
\* executions the coroutines created for each step.
NoSupervisor ==
    [pc |-> "idle", steps |-> <<>>, completed_steps |-> {}, status |-> "pending",
     ready_steps |-> <<>>, executions |-> <<>>, rounds |-> 0]

SupInit == supervisor = NoSupervisor

\* _execute_workflow up to its first await
ExecuteWorkflow(workflow_def) ==
    /\ supervisor.pc = "idle"
    /\ supervisor' = run_loop(
          [NoSupervisor EXCEPT
              !.steps = [i \in DOMAIN workflow_def |-> SupervisorStep(i, workflow_def[i])],
              !.executions = [i \in DOMAIN workflow_def |-> 0]])
    /\ UNCHANGED <<hitl_vars, wf_vars, resp_vars, mem_vars, comm>>

\* the await of the round returns: the results are processed and the loop
\* goes on; an exception leaving the await ends in `except Exception'
GatherReturns(outcomes) ==
    /\ supervisor.pc = "gather"
    /\ Len(outcomes) = Len(supervisor.ready_steps)
    /\ LET joined == gather(outcomes)
       IN  supervisor' =
              IF joined.raised
              THEN [supervisor EXCEPT !.pc = "done", !.status = "failed"]
              ELSE run_loop(process_results(supervisor, joined.step_results))
    /\ UNCHANGED <<hitl_vars, wf_vars, resp_vars, mem_vars, comm>>

SupervisorNext ==
    \/ \E d \in WorkflowDefs : ExecuteWorkflow(d)
    \/ \E o \in RoundOutcomes : GatherReturns(o)

(***************************************************************************)
(* The program as a whole: every part starts in its initial state, and     *)
(* each specification follows the steps of one part.                       *)
(***************************************************************************)
Init == HitlInit /\ WfInit /\ RespInit /\ MemInit /\ CommInit /\ SupInit

Spec == Init /\ [][Next]_vars

(***************************************************************************)
(* Properties of the workflow executors.                                   *)
(***************************************************************************)
\* C1 (as claimed): with auto_approve false, under either executor, the
\* tool of a step with requires_approval = true is invoked only after a
\* human approve action for that step has been received.
C1_GatedToolOnlyAfterApproval ==
    \A c \in DOMAIN tool_calls :
        (workflow.steps[tool_calls[c].step].requires_approval /\ ~workflow.auto_approve)
            => tool_calls[c].step \in approved_steps

\* C2 (as claimed): once the approve action for a halted step has arrived
\* through /workflow/approve, the resumed executor pass executes that step's
\* tool, so that when the pass is over the step is completed or failed (and
\* not awaiting_approval again).
C2_ApprovedStepIsExecuted ==
    \A t \in DOMAIN tasks :
        (tasks[t].from_step # 0 /\ tasks[t].pc = "done") =>
            \A k \in DOMAIN workflow.steps :
                workflow.steps[k].step_id = tasks[t].from_step =>
                    /\ workflow.steps[k].status \in {"completed", "failed"}
                    /\ \E c \in DOMAIN tool_calls : tool_calls[c].step = k

SpecHitl == Init /\ [][HitlNext]_vars

SpecRespond == Init /\ [][RespondNext]_vars

SpecMemory == Init /\ [][MemoryNext]_vars

SpecPipeline == Init /\ [][PipelineNext]_vars

\* graph.stream runs the nodes one after the other without a pause: a run
\* under way takes its next step
SpecRunFair == Init /\ [][RunNext]_vars /\ WF_vars(RunNext)

SpecSend == Init /\ [][SendNext]_vars

SpecFailure == Init /\ [][FailureNext]_vars

SpecConversation == Init /\ [][ConversationNext]_vars

\* asyncio.gather returns once every coroutine of the round has ended: the
\* agents answer, so a round under way is joined
SpecSupervisor == Init /\ [][SupervisorNext]_vars /\ WF_vars(SupervisorNext)

\* the tool adapters catch every exception and return a ToolResult: the
\* tool a pass of the background executor awaits returns
SpecBackgroundFair ==
    Init /\ [][Next]_vars
         /\ WF_vars(\E t \in 1..MaxPasses, r \in AllResults : BackgroundToolReturn(t, r))

(***************************************************************************)
(* Properties of the approval registry.                                    *)
(***************************************************************************)
Resolved == {"approved", "rejected"}
Terminal == {"approved", "rejected", "expired"}
Stored == DOMAIN pending_approvals
\* the request the latest call was about, when it is (still) stored
LastRequest == pending_approvals[last.id]
LastOn(op) == last.op = op /\ last.id \in Stored

\* C3: approve_request on a request whose status is already approved or
\* already rejected returns false and leaves its response_data unchanged,
\* whoever calls it, whatever data is supplied and whatever the clock says.
C3_ApproveResolvedFails ==
    \A i \in Stored, u \in Users, d \in ResponseDatas :
        pending_approvals[i].status \in Resolved =>
            LET r == approve_request(pending_approvals, i, u, d, now)
            IN  /\ r.ret = FALSE
                /\ r.table[i].response_data = pending_approvals[i].response_data

\* an approve call by the owner has just failed on a request that is
\* approved and holds the data of its first approval
C3_Witness ==
    /\ LastOn("approve")
    /\ last.ret = FALSE
    /\ last.user = LastRequest.user_id
    /\ LastRequest.status = "approved"
    /\ LastRequest.response_data = Some(NoteDict)

\* C4: get_approval_request on an existing request when now > expires_at
\* returns it with status expired (and stores that status), whatever the
\* stored status was before the read.
C4_GetAfterDeadlineExpired ==
    \A i \in Stored :
        now > pending_approvals[i].expires_at =>
            LET r == get_approval_request(pending_approvals, i, now)
            IN  /\ r.ret # None
                /\ \A request \in r.ret : request.status = "expired"
                /\ r.table[i].status = "expired"

\* a get has just returned, as expired, a request that had been resolved
\* (it holds response data) before its deadline passed
C4_Witness ==
    /\ LastOn("get")
    /\ now > LastRequest.expires_at
    /\ LastRequest.status = "expired"
    /\ LastRequest.response_data # None

\* C5 (as claimed): once the status of a request is approved, rejected or
\* expired, no call and no clock advance changes it to a different status.
C5_TerminalStatusNeverChanges ==
    [][\A i \in Stored \cap DOMAIN pending_approvals' :
          pending_approvals[i].status \in Terminal =>
              pending_approvals'[i].status = pending_approvals[i].status]_vars

\* C6: approve_request and reject_request called with a user id other than
\* the request's user_id return false and leave the request (its status and
\* its response_data) unchanged, for every status and every clock value.
C6_NonOwnerCannotResolve ==
    \A i \in Stored, u \in Users :
        u # pending_approvals[i].user_id =>
            /\ \A d \in ResponseDatas :
                  LET r == approve_request(pending_approvals, i, u, d, now)
                  IN  /\ r.ret = FALSE
                      /\ r.table[i].status = pending_approvals[i].status
                      /\ r.table[i].response_data = pending_approvals[i].response_data
            /\ \A reason \in Reasons :
                  LET r == reject_request(pending_approvals, i, u, reason, now)
                  IN  /\ r.ret = FALSE
                      /\ r.table[i].status = pending_approvals[i].status
                      /\ r.table[i].response_data = pending_approvals[i].response_data

\* an approve call by another user has just failed on a request that is
\* still pending, before its deadline
C6_Witness ==
    /\ LastOn("approve")
    /\ last.ret = FALSE
    /\ last.user # LastRequest.user_id
    /\ LastRequest.status = "pending"
    /\ now <= LastRequest.expires_at

\* C7: approve_request returns true if and only if the request exists, the
\* caller is its owner, now <= expires_at and its status is pending; when it
\* returns true the status becomes approved and response_data becomes the
\* supplied data (an empty map when none is supplied).
C7_ApproveSucceedsIff ==
    \A i \in ApprovalIds, u \in Users, d \in ResponseDatas :
        LET r == approve_request(pending_approvals, i, u, d, now)
        IN  /\ r.ret = TRUE <=>
                  /\ i \in Stored
                  /\ pending_approvals[i].user_id = u
                  /\ now <= pending_approvals[i].expires_at
                  /\ pending_approvals[i].status = "pending"
            /\ r.ret = TRUE =>
                  /\ r.table[i].status = "approved"
                  /\ r.table[i].response_data =
                        (IF d = None THEN Some(EmptyDict) ELSE d)

\* an approve call has just succeeded exactly at the deadline, storing the
\* supplied data
C7_Witness ==
    /\ LastOn("approve")
    /\ last.ret = TRUE
    /\ now = LastRequest.expires_at
    /\ LastRequest.status = "approved"
    /\ LastRequest.response_data = Some(NoteDict)

\* C8 (as claimed): reject_request succeeds only if the request's status is
\* pending, the request is not expired (now <= expires_at) and the user
\* matches; rejecting a request past its deadline returns false and does
\* not set status rejected.
C8_RejectGuardedLikeApprove ==
    \A i \in Stored, u \in Users, reason \in Reasons :
        LET r == reject_request(pending_approvals, i, u, reason, now)
        IN  /\ r.ret = TRUE =>
                  /\ pending_approvals[i].status = "pending"
                  /\ now <= pending_approvals[i].expires_at
                  /\ pending_approvals[i].user_id = u
            /\ now > pending_approvals[i].expires_at =>
                  /\ r.ret = FALSE
                  /\ r.table[i].status # "rejected"

\* the clock values after a request's creation that the model reaches
LaterClocks(t) == {t + k * d : k \in 1..MaxTicks, d \in TickSteps \cup {1}}

\* C9 (as claimed): a request created with timeout_minutes = 0 has
\* expires_at equal to its creation time, and get_approval_request reports
\* it expired at any later clock value.
C9_ZeroTimeoutExpiresAtOnce ==
    (LastOn("create") /\ last.timeout = 0) =>
        /\ LastRequest.expires_at = LastRequest.created_at
        /\ \A t \in LaterClocks(now) :
              \A request \in get_approval_request(pending_approvals, last.id, t).ret :
                  request.status = "expired"

\* the requests get_pending_approvals is to return: those of the user, of
\* the conversation when one is given, not past their deadline and pending
ExpectedPending(user_id, conversation_id) ==
    {i \in Stored :
        /\ pending_approvals[i].user_id = user_id
        /\ conversation_id # NoConversation =>
              pending_approvals[i].conversation_id = conversation_id
        /\ ~(now > pending_approvals[i].expires_at)
        /\ pending_approvals[i].status = "pending"}
\* the requests of that user and conversation found past their deadline
MetExpired(user_id, conversation_id) ==
    {i \in Stored :
        /\ pending_approvals[i].user_id = user_id
        /\ conversation_id # NoConversation =>
              pending_approvals[i].conversation_id = conversation_id
        /\ now > pending_approvals[i].expires_at}
Range(s) == {s[k] : k \in DOMAIN s}

\* C10: get_pending_approvals(user, conversation?) returns exactly the
\* requests whose owner is user, whose conversation matches when one is
\* given, that are not past their deadline and whose status is pending,
\* each once; every request of that user/conversation found past its
\* deadline has status expired afterwards.
C10_PendingListExact ==
    \A u \in Users, c \in Conversations \cup {NoConversation} :
        LET r == get_pending_approvals(pending_approvals, u, c, now)
        IN  /\ Range(r.ret) = ExpectedPending(u, c)
            /\ Len(r.ret) = Cardinality(ExpectedPending(u, c))
            /\ DOMAIN r.table = Stored
            /\ \A i \in MetExpired(u, c) : r.table[i].status = "expired"

\* a listing filtered by conversation has just returned the request its
\* user holds in that conversation, pending and not past its deadline,
\* after the clock has moved
C10_Witness ==
    /\ last.op = "list"
    /\ last.conv # NoConversation
    /\ last.ret = TRUE
    /\ now > 0
    /\ \E i \in Stored :
          /\ pending_approvals[i].user_id = last.user
          /\ pending_approvals[i].conversation_id = last.conv
          /\ pending_approvals[i].status = "pending"
          /\ ~(now > pending_approvals[i].expires_at)

(***************************************************************************)
(* Properties of the HITL router.                                          *)
(***************************************************************************)
\* the successful resolve calls on request i, and the tasks scheduled for it
SuccessesOn(i) == {k \in DOMAIN responses : responses[k].id = i}
ScheduledFor(i) == {k \in DOMAIN scheduled : scheduled[k] = i}

\* C11: of all the resolve calls (approve or reject, through /hitl/respond
\* or the Teams endpoint) made on one approval request, in whatever order
\* the event loop runs them, at most one is answered with success, and
\* execute_approved_action is scheduled at most once for the request.
C11_AtMostOneResolveSucceeds ==
    \A i \in 1..(next_approval - 1) :
        /\ Cardinality(SuccessesOn(i)) <= 1
        /\ Cardinality(ScheduledFor(i)) <= 1

\* the owner's resolve call on a request resolved by an earlier call has
\* just been refused
C11_Witness ==
    /\ last.op = "respond"
    /\ last.ret = FALSE
    /\ last.id \in Stored
    /\ pending_approvals[last.id].user_id = last.user
    /\ pending_approvals[last.id].status \in Resolved
    /\ SuccessesOn(last.id) # {}

(***************************************************************************)
(* Properties of the workflow's step list and status.                      *)
(***************************************************************************)
AwaitingSteps ==
    {k \in DOMAIN workflow.steps : workflow.steps[k].status = "awaiting_approval"}

\* C12: in every reachable state of a workflow at most one of its steps has
\* status awaiting_approval.
C12_AtMostOneAwaiting == Cardinality(AwaitingSteps) <= 1

\* a workflow whose list has grown is halted again at its gated step after
\* an approve action and the resumed pass
C12_Witness ==
    /\ Cardinality(AwaitingSteps) = 1
    /\ Len(workflow.steps) = 3
    /\ \E t \in DOMAIN tasks : tasks[t].from_step # 0 /\ tasks[t].pc = "done"

\* C13: every step of the system leaves the step list at least as long as
\* it was, and each step already in the list keeps its position, its id and
\* its tool name.
C13_StepsAppendOnly ==
    [][/\ Len(workflow'.steps) >= Len(workflow.steps)
       /\ \A k \in DOMAIN workflow.steps :
             /\ workflow'.steps[k].step_id = workflow.steps[k].step_id
             /\ workflow'.steps[k].tool_name = workflow.steps[k].tool_name]_vars

\* two steps were appended to a one-step plan and the executor has gone on
\* to halt at the appended gated step
C13_Witness ==
    /\ Len(workflow.steps) = 3
    /\ \A k \in 1..3 : workflow.steps[k].step_id = k
    /\ workflow.steps[1].tool_name = RagTool
    /\ workflow.steps[1].status = "completed"
    /\ workflow.steps[3].status = "awaiting_approval"

\* what execute_tool_step returns when the tool adapter reports success=false
ErrorResults == {"Error: rag", "Error: draft"}

\* C14 (as claimed): when the tool adapter of a non-gated step fails, the
\* background executor marks the step failed and the workflow failed, and
\* executes no further step.
C14_FailedToolFailsWorkflow ==
    \A k \in DOMAIN workflow.steps :
        (/\ workflow.mode = "background"
         /\ ~workflow.steps[k].requires_approval
         /\ workflow.steps[k].result \in ErrorResults)
            => /\ workflow.steps[k].status = "failed"
               /\ workflow.status = "failed"
               /\ \A c \in DOMAIN tool_calls : tool_calls[c].step <= k

\* C15: a workflow with status completed has every step completed (so none
\* failed); a workflow all of whose steps are completed or failed, one of
\* them failed, has status failed.
C15_CompletedMeansAllCompleted ==
    /\ workflow.status = "completed" =>
          \A k \in DOMAIN workflow.steps : workflow.steps[k].status = "completed"
    /\ (/\ \A k \in DOMAIN workflow.steps :
              workflow.steps[k].status \in {"completed", "failed"}
        /\ \E k \in DOMAIN workflow.steps : workflow.steps[k].status = "failed")
          => workflow.status = "failed"

\* the streaming executor has completed a workflow of three steps
C15_Witness ==
    /\ workflow.mode = "stream"
    /\ workflow.status = "completed"
    /\ Len(workflow.steps) = 3
    /\ stream.pc = "done"

\* the results of the completed steps, in list order (the parts of the
\* join; a step that returned no text contributes none)
CompletedResults(steps) ==
    LET completed_steps ==
            SelectSeq(steps, LAMBDA s : s.status = "completed" /\ Truthy(s.result))
    IN  [k \in DOMAIN completed_steps |-> completed_steps[k].result]

\* C16 (as claimed): the final_result of a completed workflow is the join of
\* the results of all its completed steps in list order, under the
\* background and under the streaming executor.
C16_FinalResultJoinsAll ==
    workflow.status = "completed" =>
        workflow.final_result = CompletedResults(workflow.steps)

\* C17: plan_workflow_steps is never empty, and on a message with a
\* procurement keyword, or with no keyword of either class, it returns
\* exactly one step, the retrieval tool with requires_approval = false.
C17_ProcurementOrDefaultPlansOneRetrieval ==
    \A m \in Messages \cup {workflow.message} :
        LET plan == plan_workflow_steps(m)
        IN  /\ plan # <<>>
            /\ (\/ m \cap ProcurementKeywords # {}
                \/ m \cap (ProcurementKeywords \cup CommunicationKeywords) = {})
                  => /\ Len(plan) = 1
                     /\ plan[1].tool_name = RagTool
                     /\ ~plan[1].requires_approval

\* a workflow has just been planned from a message with a procurement
\* keyword and a communication keyword: one pending retrieval step
C17_Witness ==
    /\ workflow.mode # "none"
    /\ workflow.message \cap ProcurementKeywords # {}
    /\ workflow.message \cap CommunicationKeywords # {}
    /\ Len(workflow.steps) = 1
    /\ workflow.steps[1].tool_name = RagTool
    /\ workflow.steps[1].status = "pending"
    /\ tool_calls = <<>>

\* C18 (as claimed): the plan of a message with a communication keyword
\* ("Please email the vendor to confirm pricing") is a draft step that is
\* not gated followed by a gated send step whose draft argument is the
\* placeholder.
C18_CommunicationPlansDraftThenSend ==
    (workflow.mode # "none" /\ workflow.message \cap CommunicationKeywords # {}) =>
        LET plan == plan_workflow_steps(workflow.message)
        IN  /\ Len(plan) = 2
            /\ plan[1].tool_name = DraftTool
            /\ ~plan[1].requires_approval
            /\ plan[2].tool_name = SendTool
            /\ plan[2].requires_approval
            /\ plan[2].tool_args.draft = Placeholder

(***************************************************************************)
(* Properties of the conversation memory.                                  *)
(***************************************************************************)
StoredHistory(conversation_id) ==
    Get(load_conversation_memory(all_memories, conversation_id), "history", <<>>)

\* C19: the stored history of every conversation has at most 10 entries,
\* and the pipeline's working copy has at most 5 once the update-memory
\* stage has run.
C19_HistoryBounded ==
    /\ \A c \in MemoryConversations : Len(StoredHistory(c)) <= MaxHistory
    /\ rag.stage = "update_memory" =>
          Len(rag.conversation_memory.history) <= PipelineHistory

\* more than 10 writes went to the default conversation alone, the last one
\* by a pipeline run: the store holds 10 entries and the working copy 5
C19_Witness ==
    /\ rag.stage = "update_memory"
    /\ DOMAIN all_memories = {DefaultConversation}
    /\ memory_ops > MaxHistory
    /\ Len(StoredHistory(DefaultConversation)) = MaxHistory
    /\ Len(rag.conversation_memory.history) = PipelineHistory

\* C20 (as claimed): the update-memory stage leaves the persisted history of
\* the run's conversation equal to the history before it with the pair
\* (original question, generated answer) appended as newest entry, cut from
\* the front to the cap.
C20_NewestEntryIsTheRun ==
    [][(rag.stage = "generate" /\ rag'.stage = "update_memory") =>
          Get(load_conversation_memory(all_memories', DefaultConversation), "history", <<>>)
              = LastN(Append(StoredHistory(DefaultConversation),
                             Entry(rag.original_question, rag.generation)),
                      MaxHistory)]_vars

(***************************************************************************)
(* Properties of the RAG pipeline and of the retriever.                    *)
(***************************************************************************)
\* C21: when the grade stage leaves no document (all dropped, or none
\* retrieved), the rerank stage leaves none, _decide_to_generate answers
\* "fallback", the next stage is handle_no_docs and never generate, and the
\* documents of the run's answer are empty.
C21_NoDocumentsTakesFallback ==
    [][/\ (rag.stage = "grade_documents" /\ rag.documents = <<>> /\ rag'.stage # rag.stage)
           => (rag'.stage = "rerank_documents" /\ rag'.documents = <<>>
               /\ rag'.decision = "fallback")
       /\ (rag.stage = "rerank_documents" /\ rag.documents = <<>> /\ rag'.stage # rag.stage)
           => (rag'.stage = "handle_no_docs" /\ rag'.documents = <<>>)
       /\ (rag.stage = "handle_no_docs" /\ rag'.stage # rag.stage)
           => (rag'.stage = "update_memory" /\ process_response(rag').success
               /\ process_response(rag').sources = <<>>)]_vars

\* a run whose retrieved documents were all dropped has ended on the
\* fallback branch
C21_Witness ==
    /\ rag.stage = "update_memory"
    /\ rag.original_documents # <<>>
    /\ rag.decision = "fallback"
    /\ process_response(rag).sources = <<>>

C23_ShortRewriteKeepsOriginal ==
    rag.stage = "rewrite_query" =>
        (Len(rag.question) >= 5 \/ rag.question = rag.original_question)

(***************************************************************************)
(* Properties of the send of the communication agent.                      *)
(***************************************************************************)
\* the send request holds every field the email service needs
SendReady(data) ==
    /\ data.approved
    /\ Given(data.draft)
    /\ Given(data.recipient)
    /\ has_user_context(data)

\* C24 (as claimed): the email service is called only for an approved request
\* with draft, recipient and the three identity fields; an approved request
\* with an identity field missing is answered with a success labelled as a
\* simulation, without a call; a request that is not approved is answered
\* with a failure, without a call.
C24_SimulatedWhenIdentityMissing ==
    comm.sends > 0 =>
        /\ comm.response.called => SendReady(comm.data)
        /\ (comm.data.approved /\ ~has_user_context(comm.data))
              => (comm.response.success /\ comm.response.method = "simulation"
                  /\ ~comm.response.called)
        /\ ~comm.data.approved => (~comm.response.success /\ ~comm.response.called)

\* C24: as above, the simulated success being the answer to an approved
\* request with an identity field missing that has a draft and a recipient;
\* without a draft or a recipient the answer is a failure, without a call.
C24_SendGuards ==
    comm.sends > 0 =>
        /\ comm.response.called => SendReady(comm.data)
        /\ (comm.data.approved /\ Given(comm.data.draft) /\ Given(comm.data.recipient)
            /\ ~has_user_context(comm.data))
              => (comm.response.success /\ comm.response.method = "simulation"
                  /\ ~comm.response.called)
        /\ (comm.data.approved /\ ~(Given(comm.data.draft) /\ Given(comm.data.recipient)))
              => (~comm.response.success /\ ~comm.response.called)
        /\ ~comm.data.approved => (~comm.response.success /\ ~comm.response.called)

\* an approved request with draft and recipient and no user name was
\* answered with a simulated send
C24_Witness ==
    /\ comm.sends > 0
    /\ comm.data.approved
    /\ Given(comm.data.draft) /\ Given(comm.data.recipient)
    /\ Given(comm.data.user_access_token) /\ Given(comm.data.user_email)
    /\ ~Given(comm.data.user_name)
    /\ comm.response.success
    /\ comm.response.method = "simulation"

(***************************************************************************)
(* Properties of the order of the pipeline's stages.                       *)
(***************************************************************************)
\* the changes of stage within a run, and from the end of a run (or from no
\* run) to the first stage of the next
StageOrder ==
    {<<"idle", "rewrite_query">>, <<"update_memory", "rewrite_query">>,
     <<"rewrite_query", "retrieve">>, <<"retrieve", "grade_documents">>,
     <<"grade_documents", "rerank_documents">>,
     <<"rerank_documents", "generate">>, <<"rerank_documents", "handle_no_docs">>,
     <<"generate", "update_memory">>, <<"handle_no_docs", "update_memory">>}

\* C25: every step of a run goes from one stage to the next in the order
\* rewrite, retrieve, grade, rerank, generate or fallback, update-memory (the
\* order has no way back, so no stage is visited twice, and after rerank one
\* of generate and fallback is taken), every stage of a run is followed by the
\* next (a run under way goes on), and both the generate and the fallback
\* stage are followed by update-memory, where the run ends.
C25_StagesInFixedOrder ==
    /\ [][rag'.stage # rag.stage => <<rag.stage, rag'.stage>> \in StageOrder]_vars
    /\ (rag.stage = "rewrite_query") ~> (rag.stage = "rerank_documents")
    /\ (rag.stage = "generate") ~> (rag.stage = "update_memory")
    /\ (rag.stage = "handle_no_docs") ~> (rag.stage = "update_memory")

\* a second run has ended on the generate branch
C25_Witness ==
    /\ rag.stage = "update_memory"
    /\ rag.decision = "generate"
    /\ memory_ops = 2

(***************************************************************************)
(* Properties of the grade and rerank stages.                              *)
(***************************************************************************)
\* the documents of a list
Elements(seq) == {seq[i] : i \in DOMAIN seq}
\* number of occurrences of x in a list
Occurrences(seq, x) == Cardinality({i \in DOMAIN seq : seq[i] = x})
\* position of the first occurrence of x in a list
PositionIn(seq, x) == CHOOSE i \in DOMAIN seq : seq[i] = x /\ \A j \in 1..(i - 1) : seq[j] # x
\* sub is seq with some entries left out, the others in their order
RECURSIVE IsSubsequence(_, _)
IsSubsequence(sub, seq) ==
    IF sub = <<>> THEN TRUE
    ELSE IF seq = <<>> THEN FALSE
    ELSE IF Head(sub) = Head(seq) THEN IsSubsequence(Tail(sub), Tail(seq))
    ELSE IsSubsequence(sub, Tail(seq))

\* the grade stage has just run: its input is original_documents, its output
\* documents, the grader's answers are in locals
Graded == rag.stage = "grade_documents"

\* C26 (as claimed): the grade stage keeps a document if and only if the
\* grader's answer for it is the positive class RELEVANT; a document answered
\* NOT_RELEVANT is dropped.
C26_KeptIffAnsweredRelevant ==
    Graded =>
        \A d \in Elements(rag.original_documents) :
            d \in Elements(rag.documents) <=> is_kept_exact(rag.locals.answers[d])

\* C27: a grader call that raises drops its document and no other (every
\* other document is kept or dropped by its own answer), the stage ends
\* normally, and its output is a subsequence of its input.
C27_GraderFailureDropsOneDocument ==
    Graded =>
        /\ IsSubsequence(rag.documents, rag.original_documents)
        /\ \A d \in Elements(rag.original_documents) :
              /\ rag.locals.answers[d].raised => d \notin Elements(rag.documents)
              /\ ~rag.locals.answers[d].raised =>
                    (d \in Elements(rag.documents)
                        <=> Contains(Upper(rag.locals.answers[d].grade), Relevant))

\* of two retrieved documents the grader failed on the first and the second
\* was kept
C27_Witness ==
    /\ Graded
    /\ Len(rag.original_documents) = 2
    /\ rag.locals.answers[rag.original_documents[1]].raised
    /\ rag.documents = <<rag.original_documents[2]>>

\* the score the rerank stage is to use for a document
ScoreFor(outcome) ==
    IF outcome.raised THEN 0
    ELSE IF \E pair \in outcome.result : pair[1] = "score"
         THEN (CHOOSE pair \in outcome.result : pair[1] = "score")[2]
         ELSE 0

\* C28: the rerank stage outputs a permutation of its input, in order of
\* non-increasing score (0 for a document whose scoring call failed), the
\* documents of equal score in their input order.
C28_RerankStablePermutation ==
    [][(rag.stage = "grade_documents" /\ rag'.stage = "rerank_documents") =>
          LET input == rag.documents
              output == rag'.documents
              score(d) == ScoreFor(rag'.locals.scores[d])
          IN  /\ Len(output) = Len(input)
              /\ \A d \in DocIds : Occurrences(output, d) = Occurrences(input, d)
              /\ \A i, j \in DOMAIN output :
                    i < j =>
                       /\ score(output[i]) >= score(output[j])
                       /\ score(output[i]) = score(output[j])
                             => PositionIn(input, output[i]) < PositionIn(input, output[j])
       ]_vars

\* two documents of equal score have been reranked, the scoring call of one
\* of them having failed
C28_Witness ==
    /\ rag.stage = "rerank_documents"
    /\ Len(rag.documents) = 2
    /\ \E d \in Elements(rag.documents) : rag.locals.scores[d].raised
    /\ \A d \in Elements(rag.documents) : ScoreFor(rag.locals.scores[d]) = 0

(***************************************************************************)
(* Properties of the retriever's probe.                                    *)
(***************************************************************************)
\* the semantic keys a hybrid request carries when it follows the cache of r
CachedBody(r) ==
    IF r.semantic_available = Some(TRUE)
    THEN {<<"queryType", "semantic">>,
          <<"semanticConfiguration", TheOne(r.semantic_config_name)>>}
    ELSE {}

ToolTasks == {t \in DOMAIN tasks : tasks[t].pc = "tool"}
\* step k of the list is an appended draft step
IsAppendedDraft(steps, k) ==
    /\ steps[k].tool_name = DraftTool
    /\ steps[k].tool_args.recipient = "Richard Pallangyo"

\* C30: under the background executor, a retrieval step that completes with
\* a result matching the trigger makes the list grow, and the list grows in
\* no other way: by two steps at its end, draft (not gated) then send
\* (gated), with ids no earlier step has; the pass that ran the retrieval
\* step (the only one so far) calls the draft tool for the appended draft step
\* in the same step, and when that tool returns, with auto_approve false, it
\* halts at the appended send step, now awaiting approval, without a call of
\* the send tool.
C30_AppendedStepsRunInSamePass ==
    [][workflow.mode = "background" =>
        /\ \A t \in ToolTasks :
              LET j == tasks[t].step_index
              IN  (workflow.steps[j].tool_name = RagTool
                   /\ OffersEmailBackground(workflow'.steps[j].result))
                      => Len(workflow'.steps) = Len(workflow.steps) + 2
        /\ Len(workflow'.steps) > Len(workflow.steps) =>
              LET n == Len(workflow.steps)
              IN  /\ ToolTasks = {1} /\ Len(tasks') = 1
                  /\ workflow.steps[tasks[1].step_index].tool_name = RagTool
                  /\ workflow'.steps[tasks[1].step_index].status = "completed"
                  /\ OffersEmailBackground(workflow'.steps[tasks[1].step_index].result)
                  /\ Len(workflow'.steps) = n + 2
                  /\ workflow'.steps[n + 1].tool_name = DraftTool
                  /\ ~workflow'.steps[n + 1].requires_approval
                  /\ workflow'.steps[n + 2].tool_name = SendTool
                  /\ workflow'.steps[n + 2].requires_approval
                  /\ \A k \in 1..n : \A m \in (n + 1)..(n + 2) :
                        workflow'.steps[k].step_id # workflow'.steps[m].step_id
                  /\ workflow'.steps[n + 1].step_id # workflow'.steps[n + 2].step_id
                  /\ tasks'[1].pc = "tool" /\ tasks'[1].step_index = n + 1
                  /\ tool_calls' = Append(tool_calls,
                        [step |-> n + 1, tool_name |-> DraftTool,
                         draft |-> tool_calls'[Len(tool_calls')].draft])
        /\ \A t \in ToolTasks :
              LET j == tasks[t].step_index
              IN  (IsAppendedDraft(workflow.steps, j) /\ ~tasks[t].auto_approve)
                      => /\ t = 1 /\ Len(tasks') = 1
                         /\ workflow'.steps[j].status = "completed"
                         /\ tasks'[t].pc = "done"
                         /\ workflow'.steps[j + 1].tool_name = SendTool
                         /\ workflow'.steps[j + 1].status = "awaiting_approval"
                         /\ workflow'.status = "awaiting_approval"
                         /\ tool_calls' = tool_calls
      ]_vars

\* one pass of the background executor, without auto-approve, has run the
\* retrieval step, the appended draft step, and halted at the appended send
\* step
C30_Witness ==
    /\ workflow.mode = "background"
    /\ ~workflow.auto_approve
    /\ Len(tasks) = 1 /\ tasks[1].pc = "done"
    /\ Len(workflow.steps) = 3
    /\ OffersEmailBackground(workflow.steps[1].result)
    /\ IsAppendedDraft(workflow.steps, 2) /\ workflow.steps[2].status = "completed"
    /\ workflow.steps[3].status = "awaiting_approval"
    /\ \E c \in DOMAIN tool_calls : tool_calls[c].step = 2

(***************************************************************************)
(* Properties of the arguments the executors hand to the tools.            *)
(***************************************************************************)
\* C31 (as claimed): whenever the tool of a send step is executed, the draft
\* argument handed to it is the result of the nearest completed step before
\* it in the list, and never the literal placeholder token.
C31_SendDraftIsPreviousResult ==
    \A c \in DOMAIN tool_calls :
        tool_calls[c].tool_name = SendTool =>
            LET prev == PrevCompleted(workflow.steps, tool_calls[c].step)
            IN  /\ tool_calls[c].draft # Placeholder
                /\ prev # 0
                /\ tool_calls[c].draft = workflow.steps[prev].result

(***************************************************************************)
(* Properties of a pipeline run that fails.                                *)
(***************************************************************************)
\* the node at which a run in state `failed' failed, `before' being the
\* state it was reached from: the rewrite node when no node has completed,
\* and otherwise the node after the last completed one
FailedNode(before, failed) ==
    IF failed.original_question = "" THEN "rewrite_query"
    ELSE next_node(before.stage, before.decision)

\* C32: when the rewrite, retrieve, generate or fallback stage raises, the
\* run ends there with an error response (success false) to the caller:
\* the step that fails leaves the memory file as it is, the failed run goes
\* on to no node (update_memory least of all) -- the next thing to happen is
\* a new run -- and, as no node of the run has written, the history stored
\* for the conversation is still the one the rewrite stage loaded.
C32_FailureEndsRunWithoutMemoryUpdate ==
    [][/\ (rag.stage # "error" /\ rag'.stage = "error") =>
              /\ FailedNode(rag, rag') \in {"rewrite_query"} \cup RaisingNodes
              /\ ~process_response(rag').success
              /\ all_memories' = all_memories
              /\ memory_ops' = memory_ops
              /\ rag'.original_question # "" =>
                    load_conversation_memory(all_memories', DefaultConversation)
                        = rag'.conversation_memory
       /\ rag.stage = "error" =>
              /\ rag'.stage \in {"rewrite_query", "error"}
              /\ all_memories' = all_memories
      ]_vars

\* a run has failed in the generate stage, after an earlier run had stored
\* its interaction: the stored history is the one that earlier run left
C32_Witness ==
    /\ rag.stage = "error"
    /\ rag.decision = "generate"
    /\ rag.documents # <<>>
    /\ memory_ops = 1
    /\ Len(load_conversation_memory(all_memories, DefaultConversation).history) = 1
    /\ ~process_response(rag).success

(***************************************************************************)
(* Properties of the supervisor's dependency-graph workflow.               *)
(***************************************************************************)
\* the steps of the round being awaited
InRound(s) == {s.ready_steps[k] : k \in DOMAIN s.ready_steps}

\* C33: in the supervisor's workflow each step is executed at most once,
\* and only in a round that starts when every step of its depends_on list
\* is completed; when the round is joined, a step whose coroutine raised is
\* failed and every other step of the round is completed with its own
\* result, the steps outside the round being left as they were; and the
\* loop ends for every dependency graph, cyclic and unsatisfiable ones
\* included, after at most one evaluation per step and one more.
C33_DependencyWorkflow ==
    /\ [][/\ \A i \in DOMAIN supervisor'.steps :
                /\ supervisor'.executions[i] <= 1
                /\ (supervisor'.executions[i] = 1
                    /\ (supervisor.pc = "idle" \/ supervisor.executions[i] = 0)) =>
                      /\ i \in InRound(supervisor')
                      /\ \A dep_id \in supervisor'.steps[i].depends_on :
                            /\ dep_id \in DOMAIN supervisor'.steps
                            /\ supervisor'.steps[dep_id].status = "completed"
                /\ supervisor'.steps[i].status \in {"completed", "failed"} =>
                      supervisor'.executions[i] = 1
          /\ supervisor.pc = "gather" =>
                \E o \in RoundOutcomes :
                    /\ Len(o) = Len(supervisor.ready_steps)
                    /\ \A k \in DOMAIN o :
                          LET after == supervisor'.steps[supervisor.ready_steps[k]]
                          IN  IF o[k] = "exception"
                              THEN after.status = "failed"
                              ELSE after.status = "completed" /\ after.result = o[k]
                    /\ \A i \in DOMAIN supervisor.steps \ InRound(supervisor) :
                          /\ supervisor'.steps[i].status = supervisor.steps[i].status
                          /\ supervisor'.steps[i].result = supervisor.steps[i].result
          /\ supervisor'.rounds <= Len(supervisor'.steps) + 1
         ]_vars
    /\ (supervisor.pc = "gather") ~> (supervisor.pc = "done")

\* a round of two steps has been joined, one step failed by an exception
\* and the other completed with the answer of its agent; the third step
\* depends on the failed one and on itself, and the loop has ended without
\* executing it
C33_Witness ==
    /\ supervisor.pc = "done"
    /\ Len(supervisor.steps) = 3
    /\ supervisor.steps[1].status = "failed"
    /\ supervisor.steps[2].status = "completed"
    /\ supervisor.steps[2].result = "success"
    /\ supervisor.steps[3].depends_on = {1, 3}
    /\ supervisor.steps[3].status = "pending"
    /\ supervisor.executions = <<1, 1, 0>>
    /\ supervisor.rounds = 2

(***************************************************************************)
(* Properties of the step statuses of a workflow.                          *)
(***************************************************************************)
\* status: str = "pending"  # pending, completed, failed, awaiting_approval
StepStatuses == {"pending", "completed", "failed", "awaiting_approval"}

\* C34 (as claimed): in every reachable state of a workflow, under the
\* background and under the streaming executor, the status of each step is
\* one of pending, completed, failed, awaiting_approval.
C34_StepStatusInDeclaredSet ==
    \A k \in DOMAIN workflow.steps : workflow.steps[k].status \in StepStatuses

(***************************************************************************)
(* Properties of the approval requests the background executor creates.    *)
(***************************************************************************)
\* the steps of the workflow whose approval request is in the registry
RequestedSteps ==
    {k \in DOMAIN workflow.steps : workflow.steps[k].approval_id \in DOMAIN pending_approvals}

\* C35 (as claimed): the draft text in the action_data of the approval
\* request created for a gated send step is the draft text execute_tool_step
\* hands to the send tool for that step: what the human approves is what
\* is sent.
C35_ApprovedDraftIsSentDraft ==
    \A k \in RequestedSteps :
        workflow.steps[k].tool_name = SendTool =>
            pending_approvals[workflow.steps[k].approval_id].action_data.draft
                = ResolvedDraft(workflow.steps, k)

\* the gated steps of the workflow
GatedSteps == {k \in DOMAIN workflow.steps : workflow.steps[k].requires_approval}

\* C36 (as claimed): over the lifetime of a workflow, through its halts,
\* approvals and resumptions, the executor creates at most one approval
\* request for a gated step (the registry never holds more requests than
\* the workflow has gated steps), and the approval_id of a step never
\* changes once it is set.
C36_OneRequestPerGatedStep ==
    [][/\ \A k \in DOMAIN workflow.steps :
              workflow.steps[k].approval_id # 0 =>
                  workflow'.steps[k].approval_id = workflow.steps[k].approval_id
       /\ Cardinality(DOMAIN pending_approvals') <= Cardinality(GatedSteps')
      ]_vars

(***************************************************************************)
(* Properties of the passes of the background executor.                    *)
(***************************************************************************)
\* the length of the list plan_workflow_steps gave for the workflow
PlannedLength == Len(plan_workflow_steps(workflow.message))

\* pass t of the background executor is at pc
PassAt(t, pc) == IF t \in DOMAIN tasks THEN tasks[t].pc = pc ELSE FALSE

\* C37: under the background executor the list grows at most once per
\* workflow -- from its planned length, after a retrieval step, by steps
\* that are not retrieval steps -- and so never exceeds the planned length
\* plus 2; the tool of a step is called only while the step is pending and
\* at most once, so that a completed step is not executed again by a
\* resumed pass; and every pass that waits for a tool comes to its end.
C37_PassesTerminate ==
    /\ [][workflow'.mode = "background" =>
            /\ Len(workflow'.steps) <= PlannedLength' + 2
            /\ Len(workflow'.steps) > Len(workflow.steps) =>
                  \/ workflow.mode = "none"
                  \/ /\ Len(workflow.steps) = PlannedLength
                     /\ \E t \in ToolTasks :
                           workflow.steps[tasks[t].step_index].tool_name = RagTool
                     /\ \A k \in (Len(workflow.steps) + 1)..Len(workflow'.steps) :
                           workflow'.steps[k].tool_name # RagTool
            /\ tool_calls' # tool_calls =>
                  LET call == tool_calls'[Len(tool_calls')]
                  IN  /\ tool_calls' = Append(tool_calls, call)
                      /\ workflow'.steps[call.step].status = "pending"
                      /\ \A c \in DOMAIN tool_calls : tool_calls[c].step # call.step
         ]_vars
    /\ \A t \in 1..MaxPasses :
          PassAt(t, "tool") ~> PassAt(t, "done")

\* the list has grown by the two appended steps, the first pass has halted
\* at the appended send step, and the pass resumed after the approve has
\* come to its end with the retrieval and the draft tool called once each
C37_Witness ==
    /\ workflow.mode = "background"
    /\ Len(workflow.steps) = PlannedLength + 2
    /\ Len(tasks) = 2
    /\ tasks[2].pc = "done"
    /\ workflow.steps[1].status = "completed"
    /\ workflow.steps[2].status = "completed"
    /\ Len(tool_calls) = 2
    /\ tool_calls[1].step = 1 /\ tool_calls[2].step = 2

(***************************************************************************)
(* Properties of the conversation a pipeline run belongs to.               *)
(***************************************************************************)
\* C38 (as claimed): a pipeline run for conversation id A reads and updates
\* only the history stored under A: the history the rewrite stage loads
\* (and the generate stage reads) is the one stored under A, and the
\* update-memory stage leaves the history stored under every other
\* conversation id as it is.
C38_RunTouchesOwnConversationOnly ==
    [][/\ rag'.stage = "rewrite_query" =>
              rag'.conversation_memory =
                  load_conversation_memory(all_memories, rag'.conversation_id)
       /\ (rag.stage # "update_memory" /\ rag'.stage = "update_memory") =>
              \A B \in MemoryConversations \ {rag.conversation_id} :
                  load_conversation_memory(all_memories', B)
                      = load_conversation_memory(all_memories, B)
      ]_vars

(***************************************************************************)
(* Properties of a rejected workflow.                                      *)
(***************************************************************************)
\* the steps a reject was received for (the tools return a text and do not
\* raise, so a step fails in no other way)
RejectedSteps == {k \in DOMAIN workflow.steps : workflow.steps[k].status = "failed"}

\* C39: a reject through /workflow/approve on a workflow with a step
\* awaiting approval makes that step failed and the workflow failed; the
\* tool of the rejected step has not been and is never invoked; and from
\* then on, whatever pass or approve/reject request follows, no tool is
\* called, the step stays failed and the workflow's status stays failed.
C39_RejectStopsWorkflow ==
    [][/\ \A k \in DOMAIN workflow.steps :
              (workflow.steps[k].status = "awaiting_approval"
               /\ workflow'.steps[k].status = "failed") =>
                  /\ workflow'.status = "failed"
                  /\ tool_calls' = tool_calls
                  /\ \A c \in DOMAIN tool_calls : tool_calls[c].step # k
                  /\ \A t \in DOMAIN tasks' : tasks'[t].pc = "done"
       /\ RejectedSteps # {} =>
              /\ workflow.status = "failed"
              /\ workflow'.status = "failed"
              /\ RejectedSteps \subseteq RejectedSteps'
              /\ tool_calls' = tool_calls
              /\ \A c \in DOMAIN tool_calls : tool_calls[c].step \notin RejectedSteps
      ]_vars

\* a workflow halted at its send step, was approved, halted again in the
\* resumed pass and was then rejected: the send tool has not been called
C39_Witness ==
    /\ workflow.mode = "background"
    /\ workflow.status = "failed"
    /\ Len(tasks) = 2 /\ tasks[2].pc = "done"
    /\ Len(workflow.steps) = 2
    /\ workflow.steps[1].status = "completed"
    /\ workflow.steps[2].tool_name = SendTool
    /\ workflow.steps[2].status = "failed"
    /\ approved_steps = {2}
    /\ \A c \in DOMAIN tool_calls : tool_calls[c].tool_name # SendTool

====
